---- MODULE Spec2Model ----
(***************************************************************************)
(* Streaming response orchestrator of deep-research-cli:                   *)
(*   - OpenAiClient.fetchUrls / streamResponse / continueStreamResponse    *)
(*     (api client, src/unnamed/part_006)                                  *)
(*   - processRequest / processEvent / handleStreamEvent (src/source/      *)
(*     app.tsx)                                                            *)
(*   - SessionLogger (src/source/utils/logger.ts)                          *)
(* Strings of the program are TLA+ strings; an absent optional string      *)
(* (undefined) is "", which every use in the code treats like ''.          *)
(***************************************************************************)
EXTENDS Integers, Sequences, FiniteSets, TLC

(* ------------------------------ bounds --------------------------------- *)
\* longest URL list handed to fetchUrls in the executor-only specification
MaxUrls == 2
\* inputs the environment gives over the whole session: requests submitted
\* by the user plus frames delivered by the endpoint
MaxInputs == 4

(* --------------------------- input alphabets --------------------------- *)
Urls == {"u1", "u2"}
Bodies == {"", "hello"}
Latencies == {7}

RECURSIVE SeqsUpTo(_, _)
SeqsUpTo(S, n) ==
    IF n = 0 THEN {<<>>}
    ELSE LET shorter == SeqsUpTo(S, n - 1)
         IN  shorter \cup {Append(s, x) : s \in {t \in shorter : Len(t) = n - 1}, x \in S}

\* what one fetch(jinaUrl) can do: ok response with a body, non-ok status,
\* rejected fetch, ok response whose text() rejects
AllOutcomes ==
    [kind : {"ok"}, body : Bodies, latency : Latencies]
    \cup [kind : {"status", "reject", "text_reject"}, body : {""}, latency : Latencies]

\* outcomes used inside a turn
TurnOutcomes ==
    { [kind |-> "ok", body |-> "hello", latency |-> 7],
      [kind |-> "reject", body |-> "", latency |-> 7] }

(* ------------------------------ helpers -------------------------------- *)
StartsWith(s, prefix) ==
    /\ Len(s) >= Len(prefix)
    /\ SubSeq(s, 1, Len(prefix)) = prefix

RECURSIVE Join(_, _)
\* Array.prototype.join
Join(parts, sep) ==
    IF Len(parts) = 0 THEN ""
    ELSE IF Len(parts) = 1 THEN parts[1]
    ELSE parts[1] \o sep \o Join(Tail(parts), sep)

\* sizeBytes < 1024 ? `${sizeBytes}B` : `${(sizeBytes / 1024).toFixed(1)}KB`
SizeFormatted(sizeBytes) ==
    IF sizeBytes < 1024
    THEN ToString(sizeBytes) \o "B"
    ELSE LET tenths == (sizeBytes * 10 + 512) \div 1024
         IN  ToString(tenths \div 10) \o "." \o ToString(tenths % 10) \o "KB"

\* error.message of a rejected fetch / text(), and the status line of a non-ok response
RejectMessage == "fetch failed"
StatusLine == "404 Not Found"

(* ----------------------- fetchUrls: one URL's callback ------------------ *)
\* Faulty variant: the non-ok and the rejected fetch escape the callback.
FetchOneUncaught(url, outcome) ==
    IF outcome.kind = "ok"
    THEN [threw |-> FALSE,
          content |-> "# Content from " \o url \o "\n\n" \o outcome.body,
          result |-> [url |-> url, content |-> outcome.body,
                      metrics |-> [url |-> url, latency |-> outcome.latency,
                                   sizeBytes |-> Len(outcome.body),
                                   sizeFormatted |-> SizeFormatted(Len(outcome.body))]]]
    ELSE [threw |-> TRUE, content |-> "", result |-> [url |-> url]]

\* Faulty variant: a failed URL still reports the size of an error page.
FetchOneErrorSize(url, outcome) ==
    LET errorContent == "Error fetching " \o url \o ": " \o
                        (IF outcome.kind = "status" THEN StatusLine ELSE RejectMessage)
    IN  IF outcome.kind = "ok"
        THEN FetchOneUncaught(url, outcome)
        ELSE [threw |-> FALSE, content |-> errorContent,
              result |-> [url |-> url, content |-> errorContent,
                          metrics |-> [url |-> url, latency |-> outcome.latency,
                                       sizeBytes |-> Len(errorContent),
                                       sizeFormatted |-> SizeFormatted(Len(errorContent))]]]

\* The async callback of urls.map: what it returns (content), what it pushes
\* to results (result), and whether it rejects (never: both failure paths are
\* inside the try).
FetchOne(url, outcome) ==
    IF outcome.kind = "ok"
    THEN [threw |-> FALSE,
          content |-> "# Content from " \o url \o "\n\n" \o outcome.body,
          result |-> [url |-> url, content |-> outcome.body,
                      metrics |-> [url |-> url, latency |-> outcome.latency,
                                   sizeBytes |-> Len(outcome.body),
                                   sizeFormatted |-> SizeFormatted(Len(outcome.body))]]]
    ELSE LET errorContent ==
                 "Error fetching " \o url \o ": " \o
                 (IF outcome.kind = "status" THEN StatusLine ELSE RejectMessage)
         IN  [threw |-> FALSE,
              content |-> errorContent,
              result |-> [url |-> url, content |-> errorContent,
                          metrics |-> [url |-> url, latency |-> outcome.latency,
                                       sizeBytes |-> 0, sizeFormatted |-> "0B"]]]

(* --------------------------- usage and pricing ------------------------- *)
\* modelPricing, in units of 1e-8 USD per token
ModelPricing ==
    [m \in {"gpt-5", "gpt-5-mini", "o3", "o3-deep-research", "o3-pro"} |->
        CASE m = "gpt-5"            -> [input |-> 125, output |-> 1000]
          [] m = "gpt-5-mini"       -> [input |-> 25,  output |-> 200]
          [] m = "o3"               -> [input |-> 50,  output |-> 150]
          [] m = "o3-deep-research" -> [input |-> 100, output |-> 300]
          [] m = "o3-pro"           -> [input |-> 200, output |-> 600]]

\* ResponseUsage of a completed frame; some = FALSE is a frame without usage
NoRawUsage ==
    [some |-> FALSE, input_tokens |-> 0, output_tokens |-> 0, total_tokens |-> 0,
     cached_tokens |-> 0, reasoning_tokens |-> 0]
RawUsages ==
    { NoRawUsage,
      [some |-> TRUE, input_tokens |-> 3, output_tokens |-> 2, total_tokens |-> 5,
       cached_tokens |-> 1, reasoning_tokens |-> 1] }

\* Usage | undefined; hasCost = FALSE is cost: undefined
NoUsage ==
    [some |-> FALSE, prompt_tokens |-> 0, completion_tokens |-> 0, total_tokens |-> 0,
     cached_tokens |-> 0, thinking_tokens |-> 0, hasCost |-> FALSE, cost |-> 0]

\* a detail count that is undefined: input_tokens_details or
\* output_tokens_details is missing, or has no such count
NoCount == -1

\* Faulty variant: a model without prices gets a cost of 0 and the detail
\* counts are copied as they are.
CalculateUsageUnpriced(model, usage) ==
    IF ~usage.some THEN NoUsage
    ELSE LET known == model \in DOMAIN ModelPricing
         IN  [some |-> TRUE,
              prompt_tokens |-> usage.input_tokens,
              completion_tokens |-> usage.output_tokens,
              total_tokens |-> usage.total_tokens,
              cached_tokens |-> usage.cached_tokens,
              thinking_tokens |-> usage.reasoning_tokens,
              hasCost |-> TRUE,
              cost |-> IF known
                       THEN usage.input_tokens * ModelPricing[model].input
                            + usage.output_tokens * ModelPricing[model].output
                       ELSE 0]

CalculateUsage(model, usage) ==
    IF ~usage.some THEN NoUsage
    ELSE LET known == model \in DOMAIN ModelPricing
         IN  [some |-> TRUE,
              prompt_tokens |-> usage.input_tokens,
              completion_tokens |-> usage.output_tokens,
              total_tokens |-> usage.total_tokens,
              cached_tokens |-> IF usage.cached_tokens = NoCount THEN 0
                                ELSE usage.cached_tokens,
              thinking_tokens |-> IF usage.reasoning_tokens = NoCount THEN 0
                                  ELSE usage.reasoning_tokens,
              hasCost |-> known,
              cost |-> IF known
                       THEN usage.input_tokens * ModelPricing[model].input
                            + usage.output_tokens * ModelPricing[model].output
                       ELSE 0]

(* ----------------------------- SessionLogger --------------------------- *)
\* The logger is one record: interactionCount, cumulativeMetrics,
\* currentMetrics, currentStatus, and the session directory (files: name ->
\* content; stats: what the last updateGlobalStats rendered into stats.md).
\* Wall-clock values (timestamps, durations, elapsed time) are left out.

RECURSIVE PadStart(_, _)
PadStart(str, n) == IF Len(str) >= n THEN str ELSE PadStart("0" \o str, n)

FormatFileNumber(number) == PadStart(ToString(number), 5)

NoMetrics == [some |-> FALSE, model |-> "", usage |-> NoUsage, urlFetches |-> <<>>]

WriteFile(files, name, content) ==
    [f \in DOMAIN files \cup {name} |-> IF f = name THEN content ELSE files[f]]

AppendFile(files, name, content) ==
    [f \in DOMAIN files \cup {name} |->
        IF f = name
        THEN (IF name \in DOMAIN files THEN files[name] ELSE "") \o content
        ELSE files[f]]

\* what updateGlobalStats renders
StatsContent(L) ==
    [state |-> L.currentStatus.state,
     model |-> L.currentMetrics.model,
     currentInteraction |-> FormatFileNumber(L.currentStatus.currentInteraction),
     progress |-> L.currentStatus.progress,
     totalInteractions |-> L.cumulativeMetrics.totalInteractions,
     completedInteractions |-> L.cumulativeMetrics.completedInteractions,
     inProgress |-> L.cumulativeMetrics.totalInteractions >
                    L.cumulativeMetrics.completedInteractions,
     totalInputTokens |-> L.cumulativeMetrics.totalInputTokens,
     totalOutputTokens |-> L.cumulativeMetrics.totalOutputTokens,
     totalCachedTokens |-> L.cumulativeMetrics.totalCachedTokens,
     totalThinkingTokens |-> L.cumulativeMetrics.totalThinkingTokens,
     totalCost |-> L.cumulativeMetrics.totalCost,
     totalUrlFetches |-> L.cumulativeMetrics.totalUrlFetches,
     interactions |-> L.cumulativeMetrics.interactions,
     inProgressRow |->
        /\ Len(L.cumulativeMetrics.interactions) > 0
        /\ ~\E k \in 1..Len(L.cumulativeMetrics.interactions) :
              L.cumulativeMetrics.interactions[k].number =
                 FormatFileNumber(L.currentStatus.currentInteraction)]

UpdateGlobalStats(L) == [L EXCEPT !.stats = StatsContent(L)]

NewLogger ==
    [interactionCount |-> 0,
     cumulativeMetrics |->
        [totalInteractions |-> 0, completedInteractions |-> 0,
         totalInputTokens |-> 0, totalOutputTokens |-> 0, totalCachedTokens |-> 0,
         totalThinkingTokens |-> 0, totalUrlFetches |-> 0, totalCost |-> 0,
         interactions |-> <<>>],
     currentMetrics |-> NoMetrics,
     currentStatus |-> [state |-> "starting", currentInteraction |-> 0, progress |-> ""],
     files |-> <<>>,
     stats |-> <<>>]

\* Faulty variant: a new interaction also clears the session's token totals.
StartInteractionResets(L, model) ==
    UpdateGlobalStats(
      [L EXCEPT
         !.interactionCount = @ + 1,
         !.cumulativeMetrics.totalInteractions = @ + 1,
         !.cumulativeMetrics.totalInputTokens = 0,
         !.cumulativeMetrics.totalOutputTokens = 0,
         !.currentMetrics = [some |-> TRUE, model |-> model, usage |-> NoUsage,
                             urlFetches |-> <<>>],
         !.currentStatus = [state |-> "starting", currentInteraction |-> L.interactionCount + 1,
                            progress |-> ""]])

StartInteraction(L, model) ==
    UpdateGlobalStats(
      [L EXCEPT
         !.interactionCount = @ + 1,
         !.cumulativeMetrics.totalInteractions = @ + 1,
         !.currentMetrics = [some |-> TRUE, model |-> model, usage |-> NoUsage,
                             urlFetches |-> <<>>],
         !.currentStatus = [state |-> "starting", currentInteraction |-> L.interactionCount + 1,
                            progress |-> ""]])

LogRequest(L, content) ==
    [L EXCEPT !.files = WriteFile(@, FormatFileNumber(L.interactionCount) \o "-request.md", content)]

RECURSIVE FetchedLinks(_, _, _)
FetchedLinks(L, urlFetchResults, index) ==
    IF index > Len(urlFetchResults) THEN ""
    ELSE "- [" \o urlFetchResults[index].url \o "](./"
         \o FormatFileNumber(L.interactionCount) \o "-tool-fetch_url-" \o ToString(index)
         \o ".md)\n" \o FetchedLinks(L, urlFetchResults, index + 1)

LogRequestFromUrlFetches(L, urlFetchResults) ==
    [L EXCEPT !.files = WriteFile(@, FormatFileNumber(L.interactionCount) \o "-request.md",
                                  "# Fetched Content\n\n" \o FetchedLinks(L, urlFetchResults, 1))]

RECURSIVE UrlLinks(_)
UrlLinks(urls) ==
    IF Len(urls) = 0 THEN ""
    ELSE "- [" \o urls[1] \o "](" \o urls[1] \o ")\n" \o UrlLinks(Tail(urls))

\* logToolCall('fetch_urls', {urls}): fs.writeFile of N-response.md
LogToolCall(L, toolName, urls) ==
    [L EXCEPT !.files = WriteFile(@, FormatFileNumber(L.interactionCount) \o "-response.md",
                                  "Tool Call: Fetch URLs\n\n" \o UrlLinks(urls))]

\* Faulty variant: the append flag is ignored and every delta replaces the file.
LogResponseOverwrite(L, content, append) ==
    [L EXCEPT !.files = WriteFile(@, FormatFileNumber(L.interactionCount) \o "-response.md",
                                  content)]

LogResponse(L, content, append) ==
    LET name == FormatFileNumber(L.interactionCount) \o "-response.md"
    IN  [L EXCEPT !.files = IF append THEN AppendFile(@, name, content)
                            ELSE WriteFile(@, name, content)]

LogReasoning(L, content, append) ==
    LET name == FormatFileNumber(L.interactionCount) \o "-response-reasoning.md"
    IN  [L EXCEPT !.files = IF append THEN AppendFile(@, name, content)
                            ELSE WriteFile(@, name, content)]

LogUrlFetchResult(L, index, url, content, metrics) ==
    LET name == FormatFileNumber(L.interactionCount) \o "-tool-fetch_url-" \o ToString(index) \o ".md"
        fileContent == "# URL Fetch Result " \o ToString(index) \o "\n\n"
                       \o "**URL:** " \o url \o "\n"
                       \o "**Latency:** " \o ToString(metrics.latency) \o "ms\n"
                       \o "**Size:** " \o metrics.sizeFormatted \o "\n\n"
                       \o "---\n\n" \o content
    IN  UpdateGlobalStats(
          [L EXCEPT
             !.files = WriteFile(@, name, fileContent),
             !.currentMetrics.urlFetches =
                 IF L.currentMetrics.some THEN Append(@, metrics) ELSE @,
             !.cumulativeMetrics.totalUrlFetches = @ + 1])

RECURSIVE NumberedUrls(_, _)
NumberedUrls(urls, index) ==
    IF index > Len(urls) THEN ""
    ELSE ToString(index) \o ". " \o urls[index] \o "\n" \o NumberedUrls(urls, index + 1)

LogUrlFetchRequest(L, urls) ==
    [L EXCEPT !.files = WriteFile(@, FormatFileNumber(L.interactionCount) \o "-response-url-fetch.md",
                                  "# URL Fetch Request\n\n"
                                  \o "The model requested to fetch the following URLs:\n\n"
                                  \o NumberedUrls(urls, 1))]

LogCombinedUrlFetch(L, combinedContent) ==
    [L EXCEPT !.files = WriteFile(@, FormatFileNumber(L.interactionCount) \o "-request-url-fetch.md",
                                  combinedContent)]

LogUrlMetrics(L, metrics) ==
    IF L.currentMetrics.some
    THEN UpdateGlobalStats(
           [L EXCEPT !.currentMetrics.urlFetches = @ \o metrics,
                     !.cumulativeMetrics.totalUrlFetches = @ + Len(metrics)])
    ELSE L

\* Faulty variant: the cumulative counters are overwritten, not added to.
UpdateMetricsReplace(L, usage) ==
    IF L.currentMetrics.some /\ usage.some
    THEN [L EXCEPT
            !.currentMetrics.usage = usage,
            !.cumulativeMetrics.totalInputTokens = usage.prompt_tokens,
            !.cumulativeMetrics.totalOutputTokens = usage.completion_tokens,
            !.cumulativeMetrics.totalCachedTokens = usage.cached_tokens,
            !.cumulativeMetrics.totalThinkingTokens = usage.thinking_tokens,
            !.cumulativeMetrics.totalCost = usage.cost]
    ELSE L

UpdateMetrics(L, usage) ==
    IF L.currentMetrics.some /\ usage.some
    THEN [L EXCEPT
            !.currentMetrics.usage = usage,
            !.cumulativeMetrics.totalInputTokens = @ + usage.prompt_tokens,
            !.cumulativeMetrics.totalOutputTokens = @ + usage.completion_tokens,
            !.cumulativeMetrics.totalCachedTokens = @ + usage.cached_tokens,
            !.cumulativeMetrics.totalThinkingTokens = @ + usage.thinking_tokens,
            !.cumulativeMetrics.totalCost = @ + usage.cost]
    ELSE L

InteractionEntry(L, status) ==
    [number |-> FormatFileNumber(L.interactionCount),
     status |-> status,
     model |-> L.currentMetrics.model,
     input |-> L.currentMetrics.usage.prompt_tokens,
     output |-> L.currentMetrics.usage.completion_tokens,
     cached |-> L.currentMetrics.usage.cached_tokens,
     urls |-> Len(L.currentMetrics.urlFetches),
     cost |-> L.currentMetrics.usage.cost]

\* Faulty variant: completing an interaction also advances the interaction number.
LogInteractionStatsAdvances(L) ==
    IF ~L.currentMetrics.some THEN L
    ELSE UpdateGlobalStats(
           [L EXCEPT
              !.files = WriteFile(@, FormatFileNumber(L.interactionCount) \o "-stats.md",
                                  "# Interaction " \o FormatFileNumber(L.interactionCount)
                                  \o " Statistics\n\n"),
              !.interactionCount = @ + 1,
              !.cumulativeMetrics.interactions = Append(@, InteractionEntry(L, "Complete")),
              !.cumulativeMetrics.completedInteractions = @ + 1,
              !.currentStatus.state = "complete"])

LogInteractionStats(L) ==
    IF ~L.currentMetrics.some THEN L
    ELSE UpdateGlobalStats(
           [L EXCEPT
              !.files = WriteFile(@, FormatFileNumber(L.interactionCount) \o "-stats.md",
                                  "# Interaction " \o FormatFileNumber(L.interactionCount)
                                  \o " Statistics\n\n"),
              !.cumulativeMetrics.interactions = Append(@, InteractionEntry(L, "Complete")),
              !.cumulativeMetrics.completedInteractions = @ + 1,
              !.currentStatus.state = "complete"])

SetCurrentState(L, state, progress) ==
    UpdateGlobalStats([L EXCEPT !.currentStatus.state = state,
                                !.currentStatus.progress = progress])

\* logError(error, undefined, context)
LogError(L, message) ==
    LET interactionNumber == L.currentStatus.currentInteraction
        alreadyLogged ==
            \E k \in 1..Len(L.cumulativeMetrics.interactions) :
                L.cumulativeMetrics.interactions[k].number = FormatFileNumber(interactionNumber)
    IN  UpdateGlobalStats(
          [L EXCEPT
             !.files = WriteFile(@, "error.log",
                                 "Interaction: " \o FormatFileNumber(interactionNumber)
                                 \o "\n--- ERROR MESSAGE ---\n" \o message \o "\n"),
             !.currentStatus.state = "error",
             !.currentStatus.progress = "Error logged to error.log",
             !.cumulativeMetrics.interactions =
                 IF ~alreadyLogged /\ L.currentMetrics.some
                 THEN Append(@, InteractionEntry(L, "Failed"))
                 ELSE @])

\* Number.prototype.toLocaleString(): digits in groups of three
RECURSIVE LocaleString(_)
LocaleString(n) ==
    IF n < 1000 THEN ToString(n)
    ELSE LocaleString(n \div 1000) \o "," \o SubSeq(PadStart(ToString(n % 1000), 3), 1, 3)

\* one "### title" section of getInteractionLog; a file that cannot be read
\* adds nothing
LogSection(L, title, name) ==
    IF name \in DOMAIN L.files
    THEN "### " \o title \o "\n\n" \o L.files[name] \o "\n\n"
    ELSE ""

GetInteractionLog(L, interactionNumber) ==
    LET number == FormatFileNumber(interactionNumber)
        known == interactionNumber <= Len(L.cumulativeMetrics.interactions)
        interactionData == L.cumulativeMetrics.interactions[interactionNumber]
    IN  "---\n\n## Interaction " \o ToString(interactionNumber) \o "\n\n"
        \o (IF known
            THEN "**Model:** " \o interactionData.model \o "\n"
                 \o "**Tokens:** Input: " \o ToString(interactionData.input)
                 \o ", Output: " \o ToString(interactionData.output)
                 \o ", Cached: " \o ToString(interactionData.cached) \o "\n"
                 \o (IF interactionData.urls > 0
                     THEN "**URL Fetches:** " \o ToString(interactionData.urls) \o "\n"
                     ELSE "")
                 \o "\n"
            ELSE "")
        \o LogSection(L, "Request", number \o "-request.md")
        \o LogSection(L, "Reasoning", number \o "-response-reasoning.md")
        \o LogSection(L, "Response", number \o "-response.md")

RECURSIVE InteractionLogs(_, _)
InteractionLogs(L, i) ==
    IF i > L.interactionCount THEN ""
    ELSE GetInteractionLog(L, i) \o InteractionLogs(L, i + 1)

CreateSessionLog(L) ==
    [L EXCEPT !.files =
        WriteFile(@, "session.md",
            "# Deep Research Session Log\n\n"
            \o "## Session Summary\n\n"
            \o "- **Total Interactions:** " \o ToString(L.cumulativeMetrics.totalInteractions) \o "\n"
            \o "- **Total Input Tokens:** " \o LocaleString(L.cumulativeMetrics.totalInputTokens) \o "\n"
            \o "- **Total Output Tokens:** " \o LocaleString(L.cumulativeMetrics.totalOutputTokens) \o "\n"
            \o "- **Total Cached Tokens:** " \o LocaleString(L.cumulativeMetrics.totalCachedTokens) \o "\n"
            \o "- **Total Thinking Tokens:** " \o LocaleString(L.cumulativeMetrics.totalThinkingTokens) \o "\n"
            \o "- **Total URL Fetches:** " \o ToString(L.cumulativeMetrics.totalUrlFetches) \o "\n\n"
            \o InteractionLogs(L, 1))]

(* ------------------------------ parseArgs ------------------------------ *)
\* an option that is not on the command line, a field that is undefined
Undefined == "<undefined>"

ModelChoices == {"o3", "o3-deep-research", "o3-pro", "gpt-5", "gpt-5-mini", "gpt-5-nano"}
EffortChoices == {"minimal", "low", "medium", "high"}
ToolChoices == {"web_search", "run_code", "fetch_urls", "all"}

\* the options of a command line
NoOptions ==
    [model |-> Undefined, reasoningEffort |-> Undefined, request |-> Undefined,
     requestFile |-> Undefined, outputFile |-> Undefined, tools |-> {}]

\* yargs rejects the command line (it reports and ends the process): a value
\* outside the choices of an option, or --request together with --request-file
Rejected(argv) ==
    \/ argv.model # Undefined /\ argv.model \notin ModelChoices
    \/ argv.reasoningEffort # Undefined /\ argv.reasoningEffort \notin EffortChoices
    \/ ~(argv.tools \subseteq ToolChoices)
    \/ argv.request # Undefined /\ argv.requestFile # Undefined

\* Faulty variant: .conflicts('request', 'request-file') is missing.
ParseArgsNoConflicts(argv) ==
    IF \/ argv.model # Undefined /\ argv.model \notin ModelChoices
       \/ argv.reasoningEffort # Undefined /\ argv.reasoningEffort \notin EffortChoices
       \/ ~(argv.tools \subseteq ToolChoices)
    THEN [NoOptions EXCEPT !.model = "rejected"]
    ELSE [model |-> IF argv.model = Undefined THEN "gpt-5" ELSE argv.model,
          reasoningEffort |-> IF argv.reasoningEffort = Undefined THEN "high"
                              ELSE argv.reasoningEffort,
          request |-> argv.request,
          requestFile |-> argv.requestFile,
          outputFile |-> argv.outputFile,
          tools |-> IF argv.tools = {} THEN {"all"} ELSE argv.tools]

\* parseArgs: the defaults of the options; model = "rejected" stands for a
\* command line yargs did not accept, for which parseArgs does not return
ParseArgs(argv) ==
    IF Rejected(argv)
    THEN [NoOptions EXCEPT !.model = "rejected"]
    ELSE [model |-> IF argv.model = Undefined THEN "gpt-5" ELSE argv.model,
          reasoningEffort |-> IF argv.reasoningEffort = Undefined THEN "high"
                              ELSE argv.reasoningEffort,
          request |-> argv.request,
          requestFile |-> argv.requestFile,
          outputFile |-> argv.outputFile,
          tools |-> IF argv.tools = {} THEN {"all"} ELSE argv.tools]

(* ------------------------------- display ------------------------------ *)
\* useStreamingLogic: ref is outputContentRef.current, shown the outputContent
\* state, timer the timeout of debouncedUpdateTimeoutRef with the content it
\* will set; timer.turn observes the processRequest call that armed it
NoTimer == [armed |-> FALSE, content |-> "", turn |-> 0]

NewDisplay == [ref |-> "", shown |-> "", timer |-> NoTimer]

SetOutputContentDebounced(D, newContent, t) ==
    [D EXCEPT !.ref = newContent,
              !.timer = [armed |-> TRUE, content |-> newContent, turn |-> t]]

\* Faulty variant: the pending debounced update is not cleared.
SetOutputContentImmediateKeepsTimer(D, newContent) ==
    [D EXCEPT !.ref = newContent, !.shown = newContent]

SetOutputContentImmediate(D, newContent) ==
    [D EXCEPT !.ref = newContent, !.shown = newContent, !.timer = NoTimer]

(* ------------------------------- process ------------------------------ *)
\* exit codes: process.exit(0) of the signal handlers, process.exit(1) of
\* main, and the status of a process ended by an unhandled SIGINT
ExitOk == 0
ExitFailure == 1
ExitSignal == 130

\* main has rendered the app; nothing was flushed, no handleExit is running.
\* mainLogger is the SessionLogger made by main, which only logFatalError uses;
\* argv and args are the command line and what parseArgs made of it, kept
\* when parseArgs is run on its own; earlySubmits counts the processRequest calls
\* started while another one was running, callsLeft whether that one still had
\* logger calls to make
NewProcess ==
    [state |-> "running", exitCode |-> ExitOk, cause |-> "none",
     interrupts |-> 0, handlers |-> 0, flushes |-> 0, sessionWrites |-> 0,
     fatalAttempted |-> FALSE, fallback |-> FALSE, mainLogger |-> NewLogger,
     parsed |-> FALSE, argv |-> NoOptions, args |-> NoOptions,
     earlySubmits |-> 0, callsLeft |-> FALSE]

\* Faulty variant: a rejected write of the fatal log leaves logFatalError.
LogFatalErrorUnguarded(L, message, written) ==
    [logger |-> IF written
                THEN [L EXCEPT !.files = WriteFile(@, "fatal-error.log",
                                    "FATAL ERROR\n\n--- ERROR MESSAGE ---\n" \o message \o "\n")]
                ELSE L,
     thrown |-> ~written]

\* logFatalError: the write is inside a try whose catch only reports
LogFatalError(L, message, written) ==
    [logger |-> IF written
                THEN [L EXCEPT !.files = WriteFile(@, "fatal-error.log",
                                    "FATAL ERROR\n\n--- ERROR MESSAGE ---\n" \o message \o "\n")]
                ELSE L,
     thrown |-> FALSE]

(* ------------------------------ variables ------------------------------ *)
VARIABLES
    \* --- upstream model endpoint
    inputsLeft,         \* requests, frames and faults the environment may still give
    completedSeen,      \* the current stream has delivered response.completed
    streamPos,          \* "start", "created" (response.created was the last frame), "body"
    wellFormed,         \* every stream of the turn so far ended with completed or threw
    streamsOpened,      \* responses.create calls of the turn
    \* --- OpenAiClient generators
    depth,              \* 0 none, 1 streamResponse, 2 continueStreamResponse running
    genPc,              \* position of the running generator
    conversation,       \* argument of continueStreamResponse
    messages,           \* input of the last responses.create call
    arguments,          \* event.arguments of the function call being handled
    args,               \* urls parsed from it
    needsContinuation,
    toolCallResults,
    requestedUrls,
    responseUsage,
    urlFetches,         \* metrics.urlFetches
    fetchCall,          \* the fetchUrls call in flight: urls, results, individualContent, ...
    fetchCalls,         \* URL lists fetchUrls was invoked with during the turn
    \* --- generator -> consumer
    pending,            \* the event yielded and not yet processed
    emitted,            \* events yielded during the turn: type, sub-turn, toolStatus
    \* --- App
    cliArgs,
    turn,               \* processRequest calls so far
    appPc,              \* "idle", "streaming" (inside the for await), "exited",
                        \* "returned" (handleInitialRequest returned without a request)
    conversationHistoryState,   \* React state
    conversationHistory,        \* the value captured by the running processRequest
    userMessage,
    finalOutputContent,
    finalThinkingContent,
    appRequestedUrls,   \* requestedUrls of processRequest
    usage,
    toolCallInProgress,
    reasoningLogged,
    toolResponseLogged,
    streamingState,
    display,            \* outputContentRef, the debounce timer and outputContent (what is shown)
    error,
    exitCalled,         \* exit() of the ink app was called
    outputFile,         \* content of the file at args.outputFile ("" while not written)
    streamingSaveCounter,
    \* --- SessionLogger
    logger,
    \* --- observation
    outputLogged,       \* per interaction number: the output deltas processed in it
    thinkingLogged,     \* per interaction number: the thinking deltas processed in it
    argumentsSeen,      \* function_call_arguments.done frames of the turn: text, sub-turn
    deltasSeen,         \* delta frames of the turn: kind (thinking, output), delta, sub-turn
    failures,           \* transport failures of the turn
    usagesSeen,         \* response.completed frames of the turn: usage, sub-turn
    metricsAtStart,     \* cumulativeMetrics of the logger when the turn started
    issuedNames,        \* request file names of the startInteraction calls made on the logger alone
    writeFailed,        \* a file write of the logger was rejected during the turn
    \* --- the process (main, signal handlers)
    proc                \* state, exit code, handleExit calls in flight, what was flushed

clientVars == <<depth, genPc, conversation, messages, arguments, args, needsContinuation,
                toolCallResults, requestedUrls, responseUsage, urlFetches, fetchCalls>>
upstreamVars == <<inputsLeft, completedSeen, streamPos, wellFormed, streamsOpened>>
appVars == <<cliArgs, turn, appPc, conversationHistoryState, conversationHistory,
             userMessage, finalOutputContent, finalThinkingContent, appRequestedUrls,
             usage, toolCallInProgress, reasoningLogged, toolResponseLogged,
             streamingState, display, error, exitCalled, logger, outputLogged, thinkingLogged,
             outputFile, streamingSaveCounter>>
obsVars == <<argumentsSeen, deltasSeen, failures>>
meterVars == <<usagesSeen, metricsAtStart>>
vars == <<upstreamVars, clientVars, fetchCall, pending, emitted, appVars, obsVars, meterVars,
          issuedNames, writeFailed, proc>>

\* outcomes and slot observe the call: what the fetch of position i did and
\* which entry of results its callback pushed
NoFetch ==
    [state |-> "idle", urls |-> <<>>, pending |-> {}, attempts |-> <<>>,
     individualContent |-> <<>>, results |-> <<>>, combinedContent |-> "",
     outcomes |-> <<>>, slot |-> <<>>]

(* ------------------------- events and frames --------------------------- *)
\* ResponseStreamEvent; error = TRUE would be an event carrying an Error object
BaseEvent ==
    [type |-> "none", delta |-> "", content |-> "", toolName |-> "", toolStatus |-> "",
     toolResult |-> "", requestedUrls |-> <<>>, urlMetrics |-> <<>>,
     urlFetchResults |-> <<>>, usage |-> NoUsage, error |-> FALSE]
NoEvent == BaseEvent

Deltas == {"a"}

\* event.arguments of response.function_call_arguments.done
ArgumentTexts ==
    { "", "{}", "{\"urls\":[", "{\"urls\":\"u1\"}", "{\"urls\":[\"u1\"]}" }

\* Faulty variant: a urls value that is a single string is taken as a one-URL list.
ParseArgumentsLenient(text) ==
    LET json == IF text = "" THEN "{}" ELSE text
    IN  CASE json = "{}"                       -> [threw |-> FALSE, urls |-> <<>>, message |-> ""]
          [] json = "{\"urls\":[]}"            -> [threw |-> FALSE, urls |-> <<>>, message |-> ""]
          [] json = "{\"urls\":[\"u1\"]}"      -> [threw |-> FALSE, urls |-> <<"u1">>, message |-> ""]
          [] json = "{\"urls\":\"u1\"}"        -> [threw |-> FALSE, urls |-> <<"u1">>, message |-> ""]
          [] json = "null"                     ->
                 [threw |-> TRUE, urls |-> <<>>, message |-> "Cannot read properties of null"]
          [] OTHER                             ->
                 [threw |-> TRUE, urls |-> <<>>, message |-> "Unexpected end of JSON input"]

\* JSON.parse(event.arguments || '{}') followed by `args.urls || []` and
\* urls.join: threw = TRUE when one of them throws (SyntaxError of the parser,
\* TypeError reading urls of null, TypeError calling join on a non-array)
ParseArguments(text) ==
    LET json == IF text = "" THEN "{}" ELSE text
    IN  CASE json = "{}"                       -> [threw |-> FALSE, urls |-> <<>>, message |-> ""]
          [] json = "{\"urls\":[]}"            -> [threw |-> FALSE, urls |-> <<>>, message |-> ""]
          [] json = "{\"urls\":[\"u1\"]}"      -> [threw |-> FALSE, urls |-> <<"u1">>, message |-> ""]
          [] json = "{\"urls\":[\"u1\",\"u2\"]}" ->
                 [threw |-> FALSE, urls |-> <<"u1", "u2">>, message |-> ""]
          [] json = "null"                     ->
                 [threw |-> TRUE, urls |-> <<>>, message |-> "Cannot read properties of null"]
          [] json = "{\"urls\":\"u1\"}"        ->
                 [threw |-> TRUE, urls |-> <<>>, message |-> "urls.join is not a function"]
          [] OTHER                             ->
                 [threw |-> TRUE, urls |-> <<>>, message |-> "Unexpected end of JSON input"]

FrameBase == [type |-> "", delta |-> "", itemType |-> "", arguments |-> "", usage |-> NoRawUsage]

\* frames whose case neither reads nor writes the generator's variables
PlainFrames ==
    { [FrameBase EXCEPT !.type = t] :
        t \in {"response.created", "response.in_progress",
               "response.reasoning_summary_part.added",
               "response.reasoning_summary_text.done",
               "response.function_call_arguments.delta",
               "response.output_text.done",
               "response.content_part.added"} }
    \cup { [FrameBase EXCEPT !.type = "response.output_item.added", !.itemType = i] :
             i \in {"reasoning", "function_call"} }
    \cup { [FrameBase EXCEPT !.type = t, !.delta = d] :
             t \in {"response.reasoning_summary_text.delta", "response.output_text.delta"},
             d \in Deltas }
ArgumentsDoneFrames ==
    { [FrameBase EXCEPT !.type = "response.function_call_arguments.done", !.arguments = a] :
        a \in ArgumentTexts }
CompletedFrames ==
    { [FrameBase EXCEPT !.type = "response.completed", !.usage = u] : u \in RawUsages }

\* The endpoint sends response.created only as the first frame of a stream
\* and response.in_progress only right after it.
Deliverable(frame, pos) ==
    /\ frame.type = "response.created" => pos = "start"
    /\ frame.type = "response.in_progress" => pos = "created"

PosAfter(frame) == IF frame.type = "response.created" THEN "created" ELSE "body"

\* deltasSeen after the frame: a reasoning-summary or output-text delta frame is recorded
DeltasAfter(frame) ==
    CASE frame.type = "response.reasoning_summary_text.delta" ->
            Append(deltasSeen, [kind |-> "thinking", delta |-> frame.delta, sub |-> depth])
      [] frame.type = "response.output_text.delta" ->
            Append(deltasSeen, [kind |-> "output", delta |-> frame.delta, sub |-> depth])
      [] OTHER -> deltasSeen

\* the case labels of the two switches
HandledKinds ==
    {"response.created", "response.in_progress", "response.output_item.added",
     "response.reasoning_summary_part.added", "response.reasoning_summary_text.delta",
     "response.reasoning_summary_text.done", "response.output_text.delta",
     "response.function_call_arguments.delta", "response.function_call_arguments.done",
     "response.completed"}
ContinueHandledKinds ==
    {"response.created", "response.in_progress", "response.output_item.added",
     "response.reasoning_summary_text.delta", "response.output_text.delta",
     "response.completed"}

\* Faulty variant: the default branch reports the frame as an error.
ClassifyStreamRejectsUnknown(frame) ==
    CASE frame.type = "response.created" ->
            [BaseEvent EXCEPT !.type = "created", !.content = "Response created"]
      [] frame.type = "response.in_progress" ->
            [BaseEvent EXCEPT !.type = "in_progress", !.content = "Response in progress"]
      [] frame.type = "response.output_item.added" /\ frame.itemType = "reasoning" ->
            [BaseEvent EXCEPT !.type = "thinking"]
      [] frame.type = "response.reasoning_summary_text.delta" ->
            [BaseEvent EXCEPT !.type = "thinking", !.delta = frame.delta]
      [] frame.type = "response.output_text.delta" ->
            [BaseEvent EXCEPT !.type = "output", !.delta = frame.delta]
      [] frame.type = "response.function_call_arguments.delta" ->
            [BaseEvent EXCEPT !.type = "tool_use", !.toolName = "fetch_urls",
                              !.toolStatus = "processing", !.delta = frame.delta]
      [] frame.type \in HandledKinds -> NoEvent
      [] OTHER -> [BaseEvent EXCEPT !.type = "error", !.content = "Unhandled event type"]

\* Faulty variant: the case of output-text delta frames is missing.
ClassifyStreamLosesOutput(frame) ==
    CASE frame.type = "response.created" ->
            [BaseEvent EXCEPT !.type = "created", !.content = "Response created"]
      [] frame.type = "response.in_progress" ->
            [BaseEvent EXCEPT !.type = "in_progress", !.content = "Response in progress"]
      [] frame.type = "response.output_item.added" /\ frame.itemType = "reasoning" ->
            [BaseEvent EXCEPT !.type = "thinking"]
      [] frame.type = "response.reasoning_summary_text.delta" ->
            [BaseEvent EXCEPT !.type = "thinking", !.delta = frame.delta]
      [] frame.type = "response.function_call_arguments.delta" ->
            [BaseEvent EXCEPT !.type = "tool_use", !.toolName = "fetch_urls",
                              !.toolStatus = "processing", !.delta = frame.delta]
      [] OTHER -> NoEvent

\* streamResponse: the cases of the switch that only translate the frame
ClassifyStream(frame) ==
    CASE frame.type = "response.created" ->
            [BaseEvent EXCEPT !.type = "created", !.content = "Response created"]
      [] frame.type = "response.in_progress" ->
            [BaseEvent EXCEPT !.type = "in_progress", !.content = "Response in progress"]
      [] frame.type = "response.output_item.added" /\ frame.itemType = "reasoning" ->
            [BaseEvent EXCEPT !.type = "thinking"]
      [] frame.type = "response.reasoning_summary_text.delta" ->
            [BaseEvent EXCEPT !.type = "thinking", !.delta = frame.delta]
      [] frame.type = "response.output_text.delta" ->
            [BaseEvent EXCEPT !.type = "output", !.delta = frame.delta]
      [] frame.type = "response.function_call_arguments.delta" ->
            [BaseEvent EXCEPT !.type = "tool_use", !.toolName = "fetch_urls",
                              !.toolStatus = "processing", !.delta = frame.delta]
      [] OTHER -> NoEvent

\* continueStreamResponse: its switch, except response.completed
ClassifyContinue(frame) ==
    CASE frame.type = "response.output_item.added" /\ frame.itemType = "reasoning" ->
            [BaseEvent EXCEPT !.type = "thinking"]
      [] frame.type = "response.reasoning_summary_text.delta" ->
            [BaseEvent EXCEPT !.type = "thinking", !.delta = frame.delta]
      [] frame.type = "response.output_text.delta" ->
            [BaseEvent EXCEPT !.type = "output", !.delta = frame.delta]
      [] OTHER -> NoEvent

\* urls.join(', ').slice(0, 100) + (urls.join(', ').length > 100 ? '...' : '')
UrlsPreview(urls) ==
    LET joined == Join(urls, ", ")
    IN  IF Len(joined) > 100 THEN SubSeq(joined, 1, 100) \o "..." ELSE joined

(* ------------------------------ fetchUrls ------------------------------ *)
\* urls.map(async url => ...): every callback runs up to its `await fetch`,
\* so one fetch per list position is in flight; results starts empty.
FetchUrlsStart(urls) ==
    [state |-> "running", urls |-> urls, pending |-> 1..Len(urls),
     attempts |-> [i \in 1..Len(urls) |-> 1],
     individualContent |-> [i \in 1..Len(urls) |-> ""],
     results |-> <<>>, combinedContent |-> "",
     outcomes |-> [i \in 1..Len(urls) |-> [kind |-> "pending", body |-> "", latency |-> 0]],
     slot |-> [i \in 1..Len(urls) |-> 0]]

\* The fetch of position i settles and its callback runs to completion:
\* it pushes its entry to the shared results array and resolves with its text.
\* A rejecting callback rejects Promise.all.
FetchSettle(i, outcome) ==
    /\ fetchCall.state = "running"
    /\ i \in fetchCall.pending
    /\ LET r == FetchOne(fetchCall.urls[i], outcome)
       IN  fetchCall' =
             IF r.threw
             THEN [fetchCall EXCEPT !.state = "rejected", !.pending = @ \ {i},
                                    !.outcomes[i] = outcome]
             ELSE [fetchCall EXCEPT
                     !.pending = @ \ {i},
                     !.individualContent[i] = r.content,
                     !.results = Append(@, r.result),
                     !.outcomes[i] = outcome,
                     !.slot[i] = Len(fetchCall.results) + 1]

\* await Promise.all(fetchPromises); join; return {combinedContent, results}
FetchUrlsReturn ==
    /\ fetchCall.state = "running"
    /\ fetchCall.pending = {}
    /\ fetchCall' = [fetchCall EXCEPT
                       !.state = "resolved",
                       !.combinedContent = Join(fetchCall.individualContent, "\n\n---\n\n")]

(* ------------------------- OpenAiClient generators --------------------- *)
Yield(ev) ==
    /\ pending' = ev
    /\ emitted' = Append(emitted, [type |-> ev.type, sub |-> depth, toolStatus |-> ev.toolStatus,
                                    delta |-> ev.delta])

YieldIfAny(ev) ==
    IF ev = NoEvent THEN UNCHANGED <<pending, emitted>> ELSE Yield(ev)

Running(d, pc) ==
    /\ appPc = "streaming"
    /\ pending = NoEvent
    /\ depth = d
    /\ genPc = pc

ErrorEvent(message) == [BaseEvent EXCEPT !.type = "error", !.content = message]

\* streamResponse: messages built, `await this.client.responses.create` resolved
StreamOpen ==
    /\ Running(1, "open")
    /\ messages' = conversationHistory \o <<[role |-> "user", content |-> userMessage.content]>>
    /\ streamsOpened' = streamsOpened + 1
    /\ completedSeen' = FALSE
    /\ streamPos' = "start"
    /\ genPc' = "stream"
    /\ UNCHANGED <<inputsLeft, wellFormed, depth, conversation, arguments, args,
                   needsContinuation, toolCallResults, requestedUrls, responseUsage,
                   urlFetches, fetchCalls, fetchCall, pending, emitted, appVars, meterVars, issuedNames, writeFailed, proc, obsVars>>

\* streamResponse: a frame of one of the translating cases, or of no case
StreamFrame(frame) ==
    /\ Running(1, "stream")
    /\ inputsLeft > 0
    /\ Deliverable(frame, streamPos)
    /\ YieldIfAny(ClassifyStream(frame))
    /\ streamPos' = PosAfter(frame)
    /\ deltasSeen' = DeltasAfter(frame)
    /\ inputsLeft' = inputsLeft - 1
    /\ wellFormed' = (wellFormed /\ ~completedSeen)
    /\ UNCHANGED <<completedSeen, streamsOpened, clientVars, fetchCall, appVars, meterVars, issuedNames, writeFailed, proc, argumentsSeen, failures>>

StreamPlainFrame == \E frame \in PlainFrames : StreamFrame(frame)

\* case 'response.function_call_arguments.done', up to its first yield
StreamArgumentsDone ==
    /\ Running(1, "stream")
    /\ inputsLeft > 0
    /\ \E frame \in ArgumentsDoneFrames :
         /\ arguments' = frame.arguments
         /\ argumentsSeen' = Append(argumentsSeen, [text |-> frame.arguments, sub |-> depth])
    /\ Yield([BaseEvent EXCEPT !.type = "tool_use", !.toolName = "fetch_urls",
                               !.toolStatus = "executing", !.content = "Fetching URLs..."])
    /\ genPc' = "parse"
    /\ inputsLeft' = inputsLeft - 1
    /\ streamPos' = "body"
    /\ wellFormed' = (wellFormed /\ ~completedSeen)
    /\ UNCHANGED <<completedSeen, streamsOpened, depth, conversation, messages, args,
                   needsContinuation, toolCallResults, requestedUrls, responseUsage,
                   urlFetches, fetchCalls, fetchCall, appVars, meterVars, issuedNames, writeFailed, proc, deltasSeen, failures>>

\* ... the try block up to its yield: parse the arguments, announce the fetch;
\* a throw goes to the inner catch, which yields tool_use/error
ParseAndAnnounce ==
    /\ Running(1, "parse")
    /\ LET parsed == ParseArguments(arguments)
       IN  IF parsed.threw
           THEN /\ Yield([BaseEvent EXCEPT !.type = "tool_use", !.toolName = "fetch_urls",
                                           !.toolStatus = "error",
                                           !.content = "Error: " \o parsed.message])
                /\ genPc' = "stream"
                /\ args' = args
           ELSE /\ Yield([BaseEvent EXCEPT
                            !.type = "tool_use", !.toolName = "fetch_urls",
                            !.toolStatus = "executing",
                            !.content = "Fetching " \o ToString(Len(parsed.urls))
                                        \o " URL(s): " \o UrlsPreview(parsed.urls)])
                /\ genPc' = "fetch"
                /\ args' = parsed.urls
    /\ arguments' = ""
    /\ UNCHANGED <<upstreamVars, depth, conversation, messages,
                   needsContinuation, toolCallResults, requestedUrls, responseUsage,
                   urlFetches, fetchCalls, fetchCall, appVars, meterVars, issuedNames, writeFailed, proc, obsVars>>

\* requestedUrls = urls; this.fetchUrls(urls) starts its fetches
StartFetch ==
    /\ Running(1, "fetch")
    /\ requestedUrls' = args
    /\ fetchCall' = FetchUrlsStart(args)
    /\ fetchCalls' = Append(fetchCalls, args)
    /\ genPc' = "fetching"
    /\ UNCHANGED <<upstreamVars, depth, conversation, messages, arguments, args,
                   needsContinuation, toolCallResults, responseUsage, urlFetches,
                   pending, emitted, appVars, meterVars, issuedNames, writeFailed, proc, obsVars>>

TurnFetchSettle ==
    /\ Running(1, "fetching")
    /\ \E i \in fetchCall.pending, outcome \in TurnOutcomes : FetchSettle(i, outcome)
    /\ UNCHANGED <<upstreamVars, clientVars, pending, emitted, appVars, meterVars, issuedNames, writeFailed, proc, obsVars>>

TurnFetchUrlsReturn ==
    /\ Running(1, "fetching")
    /\ FetchUrlsReturn
    /\ UNCHANGED <<upstreamVars, clientVars, pending, emitted, appVars, meterVars, issuedNames, writeFailed, proc, obsVars>>

UrlMetricsOf(results) ==
    [k \in 1..Len(results) |->
        [url |-> results[k].url, startTime |-> 0, endTime |-> 0,
         sizeBytes |-> results[k].metrics.sizeBytes]]

\* Faulty variant: the continuation event is yielded as soon as the tool call
\* settled, inside the for await, and not after the loop.
ToolSettledContinuesAtOnce ==
    /\ Running(1, "fetching")
    /\ fetchCall.state \in {"resolved", "rejected"}
    /\ IF fetchCall.state = "resolved"
       THEN /\ urlFetches' = urlFetches \o UrlMetricsOf(fetchCall.results)
            /\ toolCallResults' = Append(toolCallResults,
                                         [toolName |-> "fetch_urls", args |-> args,
                                          result |-> fetchCall.combinedContent,
                                          results |-> fetchCall.results])
            /\ needsContinuation' = TRUE
            /\ Yield([BaseEvent EXCEPT
                        !.type = "tool_continuation", !.toolName = "fetch_urls",
                        !.toolResult = fetchCall.combinedContent,
                        !.requestedUrls = requestedUrls,
                        !.urlMetrics = urlFetches \o UrlMetricsOf(fetchCall.results),
                        !.urlFetchResults = fetchCall.results,
                        !.usage = CalculateUsage(cliArgs.model, responseUsage)])
       ELSE /\ Yield([BaseEvent EXCEPT !.type = "tool_use", !.toolName = "fetch_urls",
                                       !.toolStatus = "error",
                                       !.content = "Error: " \o RejectMessage])
            /\ UNCHANGED <<urlFetches, toolCallResults, needsContinuation>>
    /\ fetchCall' = NoFetch
    /\ args' = <<>>
    /\ genPc' = "stream"
    /\ UNCHANGED <<upstreamVars, depth, conversation, messages, arguments,
                   requestedUrls, responseUsage, fetchCalls, appVars, meterVars, issuedNames, writeFailed, proc, obsVars>>

\* `await this.fetchUrls(urls)` settled: the rest of the try block, or the
\* inner catch when the call rejected
ToolSettled ==
    /\ Running(1, "fetching")
    /\ fetchCall.state \in {"resolved", "rejected"}
    /\ IF fetchCall.state = "resolved"
       THEN /\ urlFetches' = urlFetches \o UrlMetricsOf(fetchCall.results)
            /\ toolCallResults' = Append(toolCallResults,
                                         [toolName |-> "fetch_urls", args |-> args,
                                          result |-> fetchCall.combinedContent,
                                          results |-> fetchCall.results])
            /\ needsContinuation' = TRUE
            /\ Yield([BaseEvent EXCEPT
                        !.type = "tool_use", !.toolName = "fetch_urls",
                        !.toolStatus = "completed",
                        !.content = "Fetched " \o ToString(Len(args)) \o " URL(s) - "
                                    \o ToString(Len(fetchCall.combinedContent))
                                    \o " chars: " \o UrlsPreview(args),
                        !.urlMetrics = UrlMetricsOf(fetchCall.results)])
       ELSE /\ Yield([BaseEvent EXCEPT !.type = "tool_use", !.toolName = "fetch_urls",
                                       !.toolStatus = "error",
                                       !.content = "Error: " \o RejectMessage])
            /\ UNCHANGED <<urlFetches, toolCallResults, needsContinuation>>
    /\ fetchCall' = NoFetch
    /\ args' = <<>>
    /\ genPc' = "stream"
    /\ UNCHANGED <<upstreamVars, depth, conversation, messages, arguments,
                   requestedUrls, responseUsage, fetchCalls, appVars, meterVars, issuedNames, writeFailed, proc, obsVars>>

\* Faulty variant: complete is yielded even when a tool call awaits its continuation.
StreamCompletedAlways ==
    /\ Running(1, "stream")
    /\ inputsLeft > 0
    /\ \E frame \in CompletedFrames :
         LET newUsage == IF frame.usage.some THEN frame.usage ELSE responseUsage
         IN  /\ responseUsage' = newUsage
             /\ usagesSeen' = Append(usagesSeen, [usage |-> frame.usage, sub |-> depth])
             /\ Yield([BaseEvent EXCEPT !.type = "complete",
                                        !.usage = CalculateUsage(cliArgs.model, newUsage)])
    /\ inputsLeft' = inputsLeft - 1
    /\ completedSeen' = TRUE
    /\ streamPos' = "body"
    /\ wellFormed' = (wellFormed /\ ~completedSeen)
    /\ UNCHANGED <<streamsOpened, depth, genPc, conversation, messages, arguments, args,
                   needsContinuation, toolCallResults, requestedUrls, urlFetches,
                   fetchCalls, fetchCall, appVars, metricsAtStart, issuedNames, writeFailed, proc, obsVars>>

\* case 'response.completed' of streamResponse
StreamCompleted ==
    /\ Running(1, "stream")
    /\ inputsLeft > 0
    /\ \E frame \in CompletedFrames :
         LET newUsage == IF frame.usage.some THEN frame.usage ELSE responseUsage
         IN  /\ responseUsage' = newUsage
             /\ usagesSeen' = Append(usagesSeen, [usage |-> frame.usage, sub |-> depth])
             /\ IF ~needsContinuation
                THEN Yield([BaseEvent EXCEPT !.type = "complete",
                                             !.usage = CalculateUsage(cliArgs.model, newUsage)])
                ELSE UNCHANGED <<pending, emitted>>
    /\ inputsLeft' = inputsLeft - 1
    /\ completedSeen' = TRUE
    /\ streamPos' = "body"
    /\ wellFormed' = (wellFormed /\ ~completedSeen)
    /\ UNCHANGED <<streamsOpened, depth, genPc, conversation, messages, arguments, args,
                   needsContinuation, toolCallResults, requestedUrls, urlFetches,
                   fetchCalls, fetchCall, appVars, metricsAtStart, issuedNames, writeFailed, proc, obsVars>>

\* the for await of streamResponse is exhausted: the code after the loop
StreamEnds ==
    /\ Running(1, "stream")
    /\ IF needsContinuation /\ Len(toolCallResults) > 0
       THEN Yield([BaseEvent EXCEPT
                     !.type = "tool_continuation",
                     !.toolName = toolCallResults[1].toolName,
                     !.toolResult = toolCallResults[1].result,
                     !.requestedUrls = requestedUrls,
                     !.urlMetrics = urlFetches,
                     !.urlFetchResults = toolCallResults[1].results,
                     !.usage = CalculateUsage(cliArgs.model, responseUsage)])
       ELSE UNCHANGED <<pending, emitted>>
    /\ genPc' = "ended"
    /\ wellFormed' = (wellFormed /\ completedSeen)
    /\ UNCHANGED <<inputsLeft, completedSeen, streamPos, streamsOpened, depth, conversation, messages,
                   arguments, args, needsContinuation, toolCallResults, requestedUrls,
                   responseUsage, urlFetches, fetchCalls, fetchCall, appVars, meterVars, issuedNames, writeFailed, proc, obsVars>>

\* Faulty variant: a failure after an executed tool call is swallowed and the
\* code after the loop still yields the continuation.
StreamThrowsThenContinues ==
    /\ Running(1, genPc)
    /\ genPc \in {"open", "stream"}
    /\ IF needsContinuation /\ Len(toolCallResults) > 0
       THEN Yield([BaseEvent EXCEPT
                     !.type = "tool_continuation",
                     !.toolName = toolCallResults[1].toolName,
                     !.toolResult = toolCallResults[1].result,
                     !.requestedUrls = requestedUrls,
                     !.urlMetrics = urlFetches,
                     !.urlFetchResults = toolCallResults[1].results,
                     !.usage = CalculateUsage(cliArgs.model, responseUsage)])
       ELSE Yield(ErrorEvent("Connection error."))
    /\ streamsOpened' = IF genPc = "open" THEN streamsOpened + 1 ELSE streamsOpened
    /\ messages' = IF genPc = "open"
                   THEN conversationHistory \o <<[role |-> "user", content |-> userMessage.content]>>
                   ELSE messages
    /\ wellFormed' = (wellFormed /\ (genPc = "open" \/ ~completedSeen))
    /\ genPc' = "ended"
    /\ failures' = failures + 1
    /\ UNCHANGED <<inputsLeft, completedSeen, streamPos, depth, conversation, arguments, args,
                   needsContinuation, toolCallResults, requestedUrls, responseUsage,
                   urlFetches, fetchCalls, fetchCall, appVars, meterVars, issuedNames, writeFailed, proc, argumentsSeen, deltasSeen>>

\* responses.create rejects or the stream throws while being read: outer catch
StreamThrows ==
    /\ Running(1, genPc)
    /\ genPc \in {"open", "stream"}
    /\ Yield(ErrorEvent("Connection error."))
    /\ streamsOpened' = IF genPc = "open" THEN streamsOpened + 1 ELSE streamsOpened
    /\ messages' = IF genPc = "open"
                   THEN conversationHistory \o <<[role |-> "user", content |-> userMessage.content]>>
                   ELSE messages
    /\ wellFormed' = (wellFormed /\ (genPc = "open" \/ ~completedSeen))
    /\ genPc' = "ended"
    /\ failures' = failures + 1
    /\ UNCHANGED <<inputsLeft, completedSeen, streamPos, depth, conversation, arguments, args,
                   needsContinuation, toolCallResults, requestedUrls, responseUsage,
                   urlFetches, fetchCalls, fetchCall, appVars, meterVars, issuedNames, writeFailed, proc, argumentsSeen, deltasSeen>>

\* continueStreamResponse: `await this.client.responses.create` resolved
ContinueOpen ==
    /\ Running(2, "open")
    /\ messages' = conversation
    /\ streamsOpened' = streamsOpened + 1
    /\ completedSeen' = FALSE
    /\ streamPos' = "start"
    /\ genPc' = "stream"
    /\ UNCHANGED <<inputsLeft, wellFormed, depth, conversation, arguments, args,
                   needsContinuation, toolCallResults, requestedUrls, responseUsage,
                   urlFetches, fetchCalls, fetchCall, pending, emitted, appVars, meterVars, issuedNames, writeFailed, proc, obsVars>>

\* continueStreamResponse: any frame but response.completed (the switch has
\* no case for the function-call frames and no default)
ContinueStreamFrame(frame) ==
    /\ Running(2, "stream")
    /\ inputsLeft > 0
    /\ Deliverable(frame, streamPos)
    /\ YieldIfAny(ClassifyContinue(frame))
    /\ streamPos' = PosAfter(frame)
    /\ deltasSeen' = DeltasAfter(frame)
    /\ argumentsSeen' =
           IF frame \in ArgumentsDoneFrames
           THEN Append(argumentsSeen, [text |-> frame.arguments, sub |-> depth])
           ELSE argumentsSeen
    /\ inputsLeft' = inputsLeft - 1
    /\ wellFormed' = (wellFormed /\ ~completedSeen)
    /\ UNCHANGED <<completedSeen, streamsOpened, clientVars, fetchCall, appVars, meterVars, issuedNames, writeFailed, proc, failures>>

ContinueFrame == \E frame \in PlainFrames \cup ArgumentsDoneFrames : ContinueStreamFrame(frame)

\* Faulty variant: the continuation records the usage and yields nothing.
ContinueCompletedSilent ==
    /\ Running(2, "stream")
    /\ inputsLeft > 0
    /\ \E frame \in CompletedFrames :
         usagesSeen' = Append(usagesSeen, [usage |-> frame.usage, sub |-> depth])
    /\ inputsLeft' = inputsLeft - 1
    /\ completedSeen' = TRUE
    /\ streamPos' = "body"
    /\ wellFormed' = (wellFormed /\ ~completedSeen)
    /\ UNCHANGED <<streamsOpened, clientVars, fetchCall, pending, emitted, appVars,
                   metricsAtStart, issuedNames, writeFailed, proc, obsVars>>

\* case 'response.completed' of continueStreamResponse (responseUsage is its own local)
ContinueCompleted ==
    /\ Running(2, "stream")
    /\ inputsLeft > 0
    /\ \E frame \in CompletedFrames :
         /\ usagesSeen' = Append(usagesSeen, [usage |-> frame.usage, sub |-> depth])
         /\ Yield([BaseEvent EXCEPT !.type = "complete",
                                 !.usage = CalculateUsage(cliArgs.model, frame.usage)])
    /\ inputsLeft' = inputsLeft - 1
    /\ completedSeen' = TRUE
    /\ streamPos' = "body"
    /\ wellFormed' = (wellFormed /\ ~completedSeen)
    /\ UNCHANGED <<streamsOpened, clientVars, fetchCall, appVars, metricsAtStart, issuedNames, writeFailed, proc, obsVars>>

ContinueEnds ==
    /\ Running(2, "stream")
    /\ genPc' = "ended"
    /\ wellFormed' = (wellFormed /\ completedSeen)
    /\ UNCHANGED <<inputsLeft, completedSeen, streamPos, streamsOpened, depth, conversation, messages,
                   arguments, args, needsContinuation, toolCallResults, requestedUrls,
                   responseUsage, urlFetches, fetchCalls, fetchCall, pending, emitted, appVars, meterVars, issuedNames, writeFailed, proc, obsVars>>

ContinueThrows ==
    /\ Running(2, genPc)
    /\ genPc \in {"open", "stream"}
    /\ Yield(ErrorEvent("Connection error."))
    /\ streamsOpened' = IF genPc = "open" THEN streamsOpened + 1 ELSE streamsOpened
    /\ messages' = IF genPc = "open" THEN conversation ELSE messages
    /\ wellFormed' = (wellFormed /\ (genPc = "open" \/ ~completedSeen))
    /\ genPc' = "ended"
    /\ failures' = failures + 1
    /\ UNCHANGED <<inputsLeft, completedSeen, streamPos, depth, conversation, arguments, args,
                   needsContinuation, toolCallResults, requestedUrls, responseUsage,
                   urlFetches, fetchCalls, fetchCall, appVars, meterVars, issuedNames, writeFailed, proc, argumentsSeen, deltasSeen>>

(* --------------------------------- App --------------------------------- *)
\* request: args.request ?? args.requestFile is set (a single non-interactive
\* request); the sessions are run with --output-file; tools: the --tools
\* option, ['all'] by default
CliArgSets ==
    { [model |-> "gpt-5", request |-> FALSE, outputFile |-> TRUE, tools |-> {"all"}],
      [model |-> "gpt-5", request |-> TRUE, outputFile |-> TRUE, tools |-> {"all"}] }

\* sessions started with --tools web_search
ToolArgSets ==
    { [model |-> "gpt-5", request |-> FALSE, outputFile |-> TRUE, tools |-> {"web_search"}] }

\* the tools of a responses.create call, by their --tools names: the
\* web_search_preview tool and the fetch_urls function, whatever the arguments
DeclaredTools(model, reasoningEffort, tools) == {"web_search", "fetch_urls"}

\* '---'.repeat(20)
Separator == "------------------------------------------------------------"

RECURSIVE ConversationMessages(_, _, _)
\* the loop of writeConversationToFile (the timestamp is left out)
ConversationMessages(history, i, isStreamingIncomplete) ==
    IF i > Len(history) THEN ""
    ELSE LET message == history[i]
             isIncomplete == isStreamingIncomplete /\ i = Len(history)
                             /\ message.role = "assistant"
         IN  Separator \o "\n"
             \o (IF message.role = "user" THEN "USER" ELSE "ASSISTANT")
             \o (IF isIncomplete THEN " (STREAMING...)" ELSE "") \o "\n"
             \o Separator \o "\n\n"
             \o message.content
             \o (IF isIncomplete THEN "\n\n[Response still streaming...]" ELSE "")
             \o "\n\n"
             \o ConversationMessages(history, i + 1, isStreamingIncomplete)

\* writeConversationToFile(path, conversation, isStreamingIncomplete): the content written
ConversationFile(history, isStreamingIncomplete) ==
    "# Conversation History\n\n" \o ConversationMessages(history, 1, isStreamingIncomplete)

\* Faulty variant: a save only once the threshold is exceeded.
ShouldSaveStreamingUpdateLate(counter, delta) ==
    /\ cliArgs.outputFile
    /\ ~cliArgs.request
    /\ counter + Len(delta) > 100

\* streamingSaveThreshold of shouldSaveStreamingUpdate
StreamingSaveThreshold == 100

ShouldSaveStreamingUpdate(counter, delta) ==
    /\ cliArgs.outputFile
    /\ ~cliArgs.request
    /\ counter + Len(delta) >= StreamingSaveThreshold

\* the text submitted in the n-th turn
InputOf(n) == "q" \o ToString(n)

\* first position >= from at which sep occurs in str, 0 if none
IndexOf(str, sep, from) ==
    LET hits == {i \in from..(Len(str) - Len(sep) + 1) : SubSeq(str, i, i + Len(sep) - 1) = sep}
    IN  IF hits = {} THEN 0 ELSE CHOOSE i \in hits : \A j \in hits : i <= j

RECURSIVE Split(_, _)
\* String.prototype.split with a non-empty separator
Split(str, sep) ==
    LET at == IndexOf(str, sep, 1)
    IN  IF at = 0 THEN <<str>>
        ELSE <<SubSeq(str, 1, at - 1)>> \o Split(SubSeq(str, at + Len(sep), Len(str)), sep)

\* content.match(/Fetching \d+ URL\(s\): (.+)/)?.[1], "" when there is no match
UrlMatch(content) ==
    LET heads == {"Fetching " \o ToString(n) \o " URL(s): " : n \in 0..9}
        hit == {h \in heads : StartsWith(content, h) /\ Len(content) > Len(h)}
    IN  IF hit = {} THEN ""
        ELSE LET h == CHOOSE x \in hit : TRUE
             IN  SubSeq(content, Len(h) + 1, Len(content))

\* .split(', ').filter(u => u && u !== '...')
RequestedUrlsOf(matched) ==
    SelectSeq(Split(matched, ", "), LAMBDA u : u /= "" /\ u /= "...")

RECURSIVE LogUrlFetchResults(_, _, _)
\* for (const [index, result] of event.urlFetchResults.entries()) logUrlFetchResult(index + 1, ...)
LogUrlFetchResults(L, urlFetchResults, index) ==
    IF index > Len(urlFetchResults) THEN L
    ELSE LogUrlFetchResults(
             LogUrlFetchResult(L, index, urlFetchResults[index].url,
                               urlFetchResults[index].content, urlFetchResults[index].metrics),
             urlFetchResults, index + 1)

\* Faulty variant: the turn's user message is left out of the continuation.
ContinuationHistoryNoUser(history, message, toolResult) ==
    history \o << [role |-> "assistant", content |-> "I will fetch the content of the URLs."],
                  [role |-> "user", content |-> toolResult] >>

\* continuationHistory of processEvent
ContinuationHistory(history, message, toolResult) ==
    history \o << message,
                  [role |-> "assistant", content |-> "I will fetch the content of the URLs."],
                  [role |-> "user", content |-> toolResult] >>

\* processRequest up to the creation of the generator
ProcessRequest ==
    /\ appPc = "idle"
    /\ inputsLeft > 0
    /\ inputsLeft' = inputsLeft - 1
    /\ cliArgs.request => turn = 0
    /\ \E input \in {InputOf(turn + 1)} :
         /\ userMessage' = [role |-> "user", content |-> input]
         /\ conversationHistoryState' =
                Append(conversationHistoryState, [role |-> "user", content |-> input])
         /\ logger' = SetCurrentState(
                        LogRequest(StartInteraction(logger, cliArgs.model), input),
                        "starting", "")
    /\ turn' = turn + 1
    /\ appPc' = "streaming"
    /\ streamingState' = "created"
    /\ display' = SetOutputContentImmediate(display, "")
    /\ error' = ""
    /\ conversationHistory' = conversationHistoryState
    /\ finalOutputContent' = ""
    /\ finalThinkingContent' = ""
    /\ appRequestedUrls' = <<>>
    /\ usage' = NoUsage
    /\ toolCallInProgress' = FALSE
    /\ reasoningLogged' = FALSE
    /\ toolResponseLogged' = FALSE
    /\ outputLogged' = Append(outputLogged, "")
    /\ thinkingLogged' = Append(thinkingLogged, "")
    /\ argumentsSeen' = <<>>
    /\ deltasSeen' = <<>>
    /\ usagesSeen' = <<>>
    /\ metricsAtStart' = logger.cumulativeMetrics
    /\ UNCHANGED issuedNames
    /\ writeFailed' = FALSE
    /\ UNCHANGED proc
    /\ failures' = 0
    \* openaiClient.streamResponse(...): the generator and its locals
    /\ depth' = 1
    /\ genPc' = "open"
    /\ needsContinuation' = FALSE
    /\ toolCallResults' = <<>>
    /\ requestedUrls' = <<>>
    /\ responseUsage' = NoRawUsage
    /\ urlFetches' = <<>>
    /\ arguments' = ""
    /\ args' = <<>>
    /\ fetchCalls' = <<>>
    /\ emitted' = <<>>
    /\ wellFormed' = TRUE
    /\ streamsOpened' = 0
    /\ completedSeen' = FALSE
    /\ streamingSaveCounter' = 0
    \* writeConversationToFile(args.outputFile, [...conversationHistory, userMessage])
    /\ outputFile' = IF cliArgs.outputFile /\ ~cliArgs.request
                     THEN ConversationFile(
                              Append(conversationHistoryState,
                                     [role |-> "user", content |-> InputOf(turn + 1)]), FALSE)
                     ELSE outputFile
    /\ UNCHANGED <<streamPos, conversation, messages, fetchCall, pending, cliArgs, exitCalled>>

\* processEvent, case 'thinking', then handleStreamEvent
OnThinking(event) ==
    /\ LET L1 == SetCurrentState(logger, "thinking", "Processing reasoning tokens")
           L2 == IF ~reasoningLogged THEN LogReasoning(L1, event.delta, FALSE)
                 ELSE IF event.delta /= "" THEN LogReasoning(L1, event.delta, TRUE)
                 ELSE L1
       IN  logger' = UpdateGlobalStats(L2)
    /\ reasoningLogged' = TRUE
    /\ finalThinkingContent' = finalThinkingContent \o event.delta
    /\ thinkingLogged' = [thinkingLogged EXCEPT ![logger.interactionCount] = @ \o event.delta]
    /\ streamingState' = "thinking"
    /\ UNCHANGED display
    /\ UNCHANGED <<cliArgs, turn, appPc, conversationHistoryState, conversationHistory,
                   userMessage, finalOutputContent, appRequestedUrls, usage,
                   toolCallInProgress, toolResponseLogged, error, exitCalled, outputLogged>>
    /\ UNCHANGED <<outputFile, streamingSaveCounter>>
    /\ UNCHANGED <<depth, genPc, conversation>>

\* processEvent, case 'output', then handleStreamEvent (no --output-file)
OnOutput(event) ==
    /\ LET L1 == SetCurrentState(logger, "responding", "")
           L2 == IF event.delta /= "" THEN LogResponse(L1, event.delta, TRUE) ELSE L1
       IN  logger' = UpdateGlobalStats(L2)
    /\ outputLogged' = [outputLogged EXCEPT ![logger.interactionCount] = @ \o event.delta]
    /\ streamingState' = "responding"
    /\ LET newContent == IF event.delta /= "" THEN event.delta ELSE event.content
           save == newContent /= "" /\ ShouldSaveStreamingUpdate(streamingSaveCounter, newContent)
       IN  /\ finalOutputContent' = finalOutputContent \o newContent
           \* setOutputContent(previous => previous + newContent)
           /\ display' = IF newContent /= ""
                         THEN SetOutputContentDebounced(display, display.ref \o newContent,
                                                        turn + proc.earlySubmits)
                         ELSE display
           /\ streamingSaveCounter' = IF save THEN 0 ELSE streamingSaveCounter + Len(newContent)
           \* saveStreamingUpdate(newFinalContent, userMessage)
           /\ outputFile' =
                 IF save
                 THEN ConversationFile(
                          conversationHistory \o
                          <<userMessage,
                            [role |-> "assistant", content |-> finalOutputContent \o newContent]>>,
                          TRUE)
                 ELSE outputFile
    /\ UNCHANGED <<cliArgs, turn, appPc, conversationHistoryState, conversationHistory,
                   userMessage, finalThinkingContent, appRequestedUrls, usage,
                   toolCallInProgress, reasoningLogged, toolResponseLogged, error,
                   exitCalled, thinkingLogged>>
    /\ UNCHANGED <<depth, genPc, conversation>>

\* processEvent, case 'tool_use', then handleStreamEvent
OnToolUse(event) ==
    /\ IF event.toolName = "fetch_urls" /\ event.toolStatus = "executing" /\ ~toolCallInProgress
       THEN LET matched == UrlMatch(event.content)
                found == IF matched /= "" THEN RequestedUrlsOf(matched) ELSE <<>>
                L1 == SetCurrentState(logger, "tool_calling", "")
                logNow == matched /= "" /\ Len(found) > 0 /\ ~toolResponseLogged
            IN  /\ toolCallInProgress' = TRUE
                /\ appRequestedUrls' = IF matched /= "" THEN found ELSE appRequestedUrls
                /\ logger' = IF logNow THEN LogToolCall(L1, "fetch_urls", found) ELSE L1
                /\ toolResponseLogged' = (toolResponseLogged \/ logNow)
       ELSE /\ toolCallInProgress' = IF event.toolStatus = "completed" THEN FALSE
                                     ELSE toolCallInProgress
            /\ UNCHANGED <<appRequestedUrls, logger, toolResponseLogged>>
    /\ UNCHANGED <<cliArgs, turn, appPc, conversationHistoryState, conversationHistory,
                   userMessage, finalOutputContent, finalThinkingContent, usage,
                   reasoningLogged, streamingState, display, error, exitCalled, outputLogged,
                   thinkingLogged>>
    /\ UNCHANGED <<outputFile, streamingSaveCounter>>
    /\ UNCHANGED <<depth, genPc, conversation>>

\* processEvent, case 'tool_continuation', up to the creation of the
\* continuation generator
OnToolContinuation(event) ==
    /\ LET urlsFromContinuation ==
               SelectSeq([k \in 1..Len(event.urlFetchResults) |-> event.urlFetchResults[k].url],
                         LAMBDA u : u /= "")
           urls == IF Len(appRequestedUrls) > 0 THEN appRequestedUrls ELSE urlsFromContinuation
           L1 == IF ~toolResponseLogged THEN LogToolCall(logger, "fetch_urls", urls) ELSE logger
           L2 == LogInteractionStats(UpdateMetrics(L1, event.usage))
           L3 == SetCurrentState(StartInteraction(L2, cliArgs.model), "fetching_urls", "")
           L4 == LogRequestFromUrlFetches(L3, event.urlFetchResults)
       IN  logger' = LogUrlFetchResults(L4, event.urlFetchResults, 1)
    /\ toolResponseLogged' = TRUE
    /\ reasoningLogged' = FALSE
    /\ outputLogged' = Append(outputLogged, "")
    /\ thinkingLogged' = Append(thinkingLogged, "")
    /\ conversation' = ContinuationHistory(conversationHistory, userMessage, event.toolResult)
    /\ UNCHANGED <<outputFile, streamingSaveCounter>>
    /\ depth' = depth + 1
    /\ genPc' = "open"
    /\ UNCHANGED <<cliArgs, turn, appPc, conversationHistoryState, conversationHistory,
                   userMessage, finalOutputContent, finalThinkingContent, appRequestedUrls,
                   usage, toolCallInProgress, streamingState, display, error, exitCalled>>

\* processEvent, case 'complete', then handleStreamEvent -> handleCompletion
OnComplete(event) ==
    /\ usage' = event.usage
    /\ streamingState' = "complete"
    /\ display' = SetOutputContentImmediate(display, finalOutputContent)
    /\ conversationHistoryState' =
           conversationHistory \o <<userMessage,
                                    [role |-> "assistant", content |-> finalOutputContent]>>
    \* writeConversationToFile(args.outputFile, updatedHistory, false) or
    \* writeOutputFile(args.outputFile, finalOutputContent)
    /\ outputFile' =
          IF ~cliArgs.outputFile THEN outputFile
          ELSE IF ~cliArgs.request
          THEN ConversationFile(
                   conversationHistory \o
                   <<userMessage, [role |-> "assistant", content |-> finalOutputContent]>>,
                   FALSE)
          ELSE finalOutputContent
    /\ UNCHANGED streamingSaveCounter
    /\ exitCalled' = (exitCalled \/ cliArgs.request)
    /\ UNCHANGED <<cliArgs, turn, appPc, conversationHistory, userMessage, finalOutputContent,
                   finalThinkingContent, appRequestedUrls, toolCallInProgress, reasoningLogged,
                   toolResponseLogged, error, logger, outputLogged, thinkingLogged>>
    /\ UNCHANGED <<depth, genPc, conversation>>

\* processEvent has no case for 'error'; handleStreamEvent, case 'error'
OnError(event) ==
    /\ streamingState' = "error"
    /\ UNCHANGED display
    /\ error' = IF event.content /= "" THEN event.content ELSE "Unknown error occurred"
    /\ logger' = IF event.error THEN LogError(logger, event.content) ELSE logger
    /\ exitCalled' = (exitCalled \/ cliArgs.request)
    /\ UNCHANGED <<cliArgs, turn, appPc, conversationHistoryState, conversationHistory,
                   userMessage, finalOutputContent, finalThinkingContent, appRequestedUrls,
                   usage, toolCallInProgress, reasoningLogged, toolResponseLogged,
                   outputLogged, thinkingLogged>>
    /\ UNCHANGED <<outputFile, streamingSaveCounter>>
    /\ UNCHANGED <<depth, genPc, conversation>>

\* handleStreamEvent, cases 'created' and 'in_progress'
OnProgress(event) ==
    /\ streamingState' = event.type
    /\ UNCHANGED display
    /\ UNCHANGED <<cliArgs, turn, appPc, conversationHistoryState, conversationHistory,
                   userMessage, finalOutputContent, finalThinkingContent, appRequestedUrls,
                   usage, toolCallInProgress, reasoningLogged, toolResponseLogged, error,
                   exitCalled, logger, outputLogged, thinkingLogged>>
    /\ UNCHANGED <<outputFile, streamingSaveCounter>>
    /\ UNCHANGED <<depth, genPc, conversation>>

\* the body of `for await (const event of generator) await processEvent(event)`
ProcessEvent ==
    /\ appPc = "streaming"
    /\ pending /= NoEvent
    /\ CASE pending.type = "thinking"          -> OnThinking(pending)
         [] pending.type = "output"            -> OnOutput(pending)
         [] pending.type = "tool_use"          -> OnToolUse(pending)
         [] pending.type = "tool_continuation" -> OnToolContinuation(pending)
         [] pending.type = "complete"          -> OnComplete(pending)
         [] pending.type = "error"             -> OnError(pending)
         [] OTHER                              -> OnProgress(pending)
    /\ pending' = NoEvent
    /\ UNCHANGED <<upstreamVars, messages, arguments, args, needsContinuation,
                   toolCallResults, requestedUrls, responseUsage, urlFetches, fetchCalls,
                   fetchCall, emitted, obsVars, meterVars, issuedNames, writeFailed, proc>>

\* continueStreamResponse returned: the inner for await ends, processEvent
\* returns, and streamResponse resumes after its last yield
ContinuationDone ==
    /\ Running(2, "ended")
    /\ depth' = 1
    /\ UNCHANGED <<upstreamVars, genPc, conversation, messages, arguments, args,
                   needsContinuation, toolCallResults, requestedUrls, responseUsage,
                   urlFetches, fetchCalls, fetchCall, pending, emitted, appVars, meterVars, issuedNames, writeFailed, proc, obsVars>>

\* streamResponse returned: processRequest after its for await
ProcessRequestFinish ==
    /\ Running(1, "ended")
    /\ depth' = 0
    /\ appPc' = "idle"
    /\ LET L1 == IF logger.currentStatus.state /= "error"
                 THEN LogInteractionStats(UpdateMetrics(logger, usage))
                 ELSE logger
       IN  logger' = IF cliArgs.request THEN CreateSessionLog(L1) ELSE L1
    /\ proc' = IF cliArgs.request THEN [proc EXCEPT !.sessionWrites = @ + 1] ELSE proc
    /\ UNCHANGED <<upstreamVars, genPc, conversation, messages, arguments, args,
                   needsContinuation, toolCallResults, requestedUrls, responseUsage,
                   urlFetches, fetchCalls, fetchCall, pending, emitted,
                   cliArgs, turn, conversationHistoryState, conversationHistory,
                   userMessage, finalOutputContent, finalThinkingContent, appRequestedUrls,
                   usage, toolCallInProgress, reasoningLogged, toolResponseLogged,
                   streamingState, display, error, exitCalled, outputLogged, thinkingLogged, outputFile,
                   streamingSaveCounter, obsVars, meterVars, issuedNames, writeFailed>>

(* ----------------------------- specifications -------------------------- *)
\* the state after construction, for any command line
Started ==
    /\ inputsLeft = MaxInputs
    /\ completedSeen = FALSE
    /\ streamPos = "start"
    /\ wellFormed = TRUE
    /\ streamsOpened = 0
    /\ depth = 0
    /\ genPc = "ended"
    /\ conversation = <<>>
    /\ messages = <<>>
    /\ arguments = ""
    /\ args = <<>>
    /\ needsContinuation = FALSE
    /\ toolCallResults = <<>>
    /\ requestedUrls = <<>>
    /\ responseUsage = NoRawUsage
    /\ urlFetches = <<>>
    /\ fetchCall = NoFetch
    /\ fetchCalls = <<>>
    /\ pending = NoEvent
    /\ emitted = <<>>
    /\ turn = 0
    /\ appPc = "idle"
    /\ conversationHistoryState = <<>>
    /\ conversationHistory = <<>>
    /\ userMessage = [role |-> "user", content |-> ""]
    /\ finalOutputContent = ""
    /\ finalThinkingContent = ""
    /\ appRequestedUrls = <<>>
    /\ usage = NoUsage
    /\ toolCallInProgress = FALSE
    /\ reasoningLogged = FALSE
    /\ toolResponseLogged = FALSE
    /\ streamingState = "idle"
    /\ display = NewDisplay
    /\ error = ""
    /\ exitCalled = FALSE
    /\ outputFile = ""
    /\ streamingSaveCounter = 0
    /\ logger = NewLogger
    /\ outputLogged = <<>>
    /\ thinkingLogged = <<>>
    /\ argumentsSeen = <<>>
    /\ deltasSeen = <<>>
    /\ usagesSeen = <<>>
    /\ metricsAtStart = NewLogger.cumulativeMetrics
    /\ issuedNames = <<>>
    /\ writeFailed = FALSE
    /\ proc = NewProcess
    /\ failures = 0

Init == cliArgs \in CliArgSets /\ Started

Next ==
    \/ ProcessRequest
    \/ StreamOpen
    \/ StreamPlainFrame
    \/ StreamArgumentsDone
    \/ ParseAndAnnounce
    \/ StartFetch
    \/ TurnFetchSettle
    \/ TurnFetchUrlsReturn
    \/ ToolSettled
    \/ StreamCompleted
    \/ StreamEnds
    \/ StreamThrows
    \/ ContinueOpen
    \/ ContinueFrame
    \/ ContinueCompleted
    \/ ContinueEnds
    \/ ContinueThrows
    \/ ProcessEvent
    \/ ContinuationDone
    \/ ProcessRequestFinish

Spec == Init /\ [][Next]_vars

\* The session with a disk that may reject a write of the logger. No logger
\* method catches the rejection of fs.writeFile or fs.appendFile, so the
\* rejection leaves the method after the fields were set and before the file
\* changed, and propagates to the caller.
WriteError == "EIO: i/o error, write"

\* setCurrentState whose updateGlobalStats write is rejected
SetCurrentStateRejected(L, state, progress) ==
    [L EXCEPT !.currentStatus.state = state, !.currentStatus.progress = progress]

\* startInteraction whose updateGlobalStats write is rejected
StartInteractionRejected(L, model) ==
    [StartInteraction(L, model) EXCEPT !.stats = L.stats]

\* processEvent, case 'thinking' or 'output': the first logger call rejects,
\* the for await ends (the generators are returned) and the catch block of
\* processRequest runs; its own logError write may be rejected as well, and
\* then processRequest rejects
ProcessEventWriteFails ==
    /\ appPc = "streaming"
    /\ pending.type \in {"thinking", "output"}
    /\ inputsLeft > 0
    /\ inputsLeft' = inputsLeft - 1
    /\ LET L1 == SetCurrentStateRejected(
                    logger,
                    IF pending.type = "thinking" THEN "thinking" ELSE "responding",
                    IF pending.type = "thinking" THEN "Processing reasoning tokens" ELSE "")
       IN  \E logged \in BOOLEAN :
              /\ logger' = IF ~logged THEN L1
                           ELSE IF cliArgs.request
                           THEN CreateSessionLog(LogError(L1, WriteError))
                           ELSE LogError(L1, WriteError)
              /\ exitCalled' = (exitCalled \/ (logged /\ cliArgs.request))
              /\ proc' = IF logged /\ cliArgs.request
                          THEN [proc EXCEPT !.sessionWrites = @ + 1] ELSE proc
    /\ streamingState' = "error"
    /\ UNCHANGED display
    /\ error' = WriteError
    /\ writeFailed' = TRUE
    /\ pending' = NoEvent
    /\ depth' = 0
    /\ genPc' = "ended"
    /\ appPc' = "idle"
    /\ UNCHANGED <<completedSeen, streamPos, wellFormed, streamsOpened, conversation, messages,
                   arguments, args, needsContinuation, toolCallResults, requestedUrls,
                   responseUsage, urlFetches, fetchCalls, fetchCall, emitted, cliArgs, turn,
                   conversationHistoryState, conversationHistory, userMessage,
                   finalOutputContent, finalThinkingContent, appRequestedUrls, usage,
                   toolCallInProgress, reasoningLogged, toolResponseLogged, outputLogged,
                   thinkingLogged, outputFile, streamingSaveCounter, obsVars, meterVars,
                   issuedNames>>

\* processRequest: logger.startInteraction is awaited before the try block,
\* so its rejection is the rejection of processRequest; no generator is made
ProcessRequestWriteFails ==
    /\ appPc = "idle"
    /\ inputsLeft > 0
    /\ inputsLeft' = inputsLeft - 1
    /\ cliArgs.request => turn = 0
    /\ userMessage' = [role |-> "user", content |-> InputOf(turn + 1)]
    /\ conversationHistoryState' =
           Append(conversationHistoryState, [role |-> "user", content |-> InputOf(turn + 1)])
    /\ logger' = StartInteractionRejected(logger, cliArgs.model)
    /\ turn' = turn + 1
    /\ streamingState' = "created"
    /\ display' = SetOutputContentImmediate(display, "")
    /\ error' = ""
    /\ outputLogged' = Append(outputLogged, "")
    /\ thinkingLogged' = Append(thinkingLogged, "")
    /\ emitted' = <<>>
    /\ argumentsSeen' = <<>>
    /\ deltasSeen' = <<>>
    /\ failures' = 0
    /\ usagesSeen' = <<>>
    /\ metricsAtStart' = logger.cumulativeMetrics
    /\ writeFailed' = TRUE
    /\ UNCHANGED <<completedSeen, streamPos, wellFormed, streamsOpened, clientVars, fetchCall,
                   pending, cliArgs, appPc, conversationHistory, finalOutputContent,
                   finalThinkingContent, appRequestedUrls, usage, toolCallInProgress,
                   reasoningLogged, toolResponseLogged, exitCalled, outputFile,
                   streamingSaveCounter, issuedNames, proc>>

NextFaulty ==
    \/ Next
    \/ ProcessEventWriteFails
    \/ ProcessRequestWriteFails

SpecFaulty == Init /\ [][NextFaulty]_vars

\* The session of a caller who did not ask for the fetch_urls tool
InitTools == cliArgs \in ToolArgSets /\ Started

SpecTools == InitTools /\ [][Next]_vars

\* calculateUsage alone, on the models of the command line and on usage
\* objects with and without detail counts
Models == {"o3", "o3-deep-research", "o3-pro", "gpt-5", "gpt-5-mini", "gpt-5-nano"}

UsageInputs ==
    { NoRawUsage }
    \cup { [some |-> TRUE, input_tokens |-> i, output_tokens |-> o, total_tokens |-> i + o,
            cached_tokens |-> c, reasoning_tokens |-> r] :
             i \in {0, 3}, o \in {0, 2}, c \in {NoCount, 0, 1}, r \in {NoCount, 0, 1} }

\* responseUsage and usage hold the argument and the result of the call,
\* cliArgs.model the model it was made for
CallCalculateUsage ==
    /\ \E model \in Models, given \in UsageInputs :
          /\ cliArgs' = [cliArgs EXCEPT !.model = model]
          /\ responseUsage' = given
          /\ usage' = CalculateUsage(model, given)
    /\ UNCHANGED <<upstreamVars, depth, genPc, conversation, messages, arguments, args,
                   needsContinuation, toolCallResults, requestedUrls, urlFetches, fetchCalls,
                   fetchCall, pending, emitted, turn, appPc, conversationHistoryState,
                   conversationHistory, userMessage, finalOutputContent, finalThinkingContent,
                   appRequestedUrls, toolCallInProgress, reasoningLogged, toolResponseLogged,
                   streamingState, display, error, exitCalled, logger, outputLogged, thinkingLogged,
                   outputFile, streamingSaveCounter, obsVars, meterVars, issuedNames,
                   writeFailed, proc>>

NextUsage == CallCalculateUsage

SpecUsage == Init /\ [][NextUsage]_vars

\* The session inside its process: interrupts, the exit handlers of the App
\* and the catch of main.
OthersUnchanged ==
    UNCHANGED <<completedSeen, streamPos, wellFormed, streamsOpened, clientVars, fetchCall,
                pending, emitted, cliArgs, turn, appPc, conversationHistoryState,
                conversationHistory, userMessage, finalOutputContent, finalThinkingContent,
                appRequestedUrls, usage, toolCallInProgress, reasoningLogged,
                toolResponseLogged, streamingState, display, error, exitCalled, outputLogged,
                thinkingLogged, outputFile, streamingSaveCounter, obsVars, meterVars,
                issuedNames, writeFailed>>

\* SIGINT or SIGTERM. exit() unmounts the app and the cleanup of the effect
\* removes the listeners, so the handler runs only while exit() was not
\* called; without a listener the signal ends the process at once.
Interrupt ==
    /\ proc.state = "running"
    /\ inputsLeft > 0
    /\ inputsLeft' = inputsLeft - 1
    /\ proc' = IF ~exitCalled
               THEN [proc EXCEPT !.interrupts = @ + 1, !.handlers = @ + 1]
               ELSE [proc EXCEPT !.interrupts = @ + 1, !.state = "exited",
                                 !.exitCode = ExitSignal, !.cause = "signal"]
    /\ UNCHANGED logger
    /\ OthersUnchanged

\* handleExit().then(() => process.exit(0)): createSessionLog has written
\* session.md, or has failed and the failure was caught
HandleExitSettles ==
    /\ proc.state = "running"
    /\ proc.handlers > 0
    /\ \E written \in BOOLEAN :
          /\ logger' = IF written THEN CreateSessionLog(logger) ELSE logger
          /\ proc' = [proc EXCEPT !.handlers = @ - 1, !.flushes = @ + 1,
                                  !.sessionWrites = IF written THEN @ + 1 ELSE @,
                                  !.state = "exited", !.exitCode = ExitOk,
                                  !.cause = "handler"]
    /\ UNCHANGED inputsLeft
    /\ OthersUnchanged

\* main: an error escapes parseArgs or the rendered app; the catch awaits
\* logFatalError and calls process.exit(1); main().catch is the fallback
FatalError ==
    /\ proc.state = "running"
    /\ inputsLeft > 0
    /\ inputsLeft' = inputsLeft - 1
    /\ \E written \in BOOLEAN :
          LET result == LogFatalError(proc.mainLogger, "boom", written)
          IN  proc' = [proc EXCEPT !.fatalAttempted = TRUE,
                                   !.mainLogger = result.logger,
                                   !.fallback = result.thrown,
                                   !.state = "exited", !.exitCode = ExitFailure,
                                   !.cause = "fatal"]
    /\ UNCHANGED logger
    /\ OthersUnchanged

RunningStep == proc.state = "running" /\ Next

NextProcess ==
    \/ RunningStep
    \/ Interrupt
    \/ HandleExitSettles
    \/ FatalError

SpecProcess == Init /\ [][NextProcess]_vars

\* The App with its prompt: the JSX renders InputPrompt in interactive mode
\* whenever streamingState is none of created, in_progress, thinking, responding
InputPromptVisible ==
    /\ ~cliArgs.request
    /\ streamingState \notin {"created", "in_progress", "thinking", "responding"}

\* handleSubmit while a processRequest call is running: void processRequest(value)
\* runs up to its try block on the React state and the logger it shares with
\* the running call; its own generator is not followed further
HandleSubmitDuringTurn ==
    /\ appPc = "streaming"
    /\ InputPromptVisible
    /\ inputsLeft > 0
    /\ inputsLeft' = inputsLeft - 1
    /\ LET input == InputOf(turn + proc.earlySubmits + 1)
       IN  /\ conversationHistoryState' =
                  Append(conversationHistoryState, [role |-> "user", content |-> input])
           /\ logger' = SetCurrentState(
                          LogRequest(StartInteraction(logger, cliArgs.model), input),
                          "starting", "")
           /\ outputFile' = IF cliArgs.outputFile
                            THEN ConversationFile(
                                     Append(conversationHistoryState,
                                            [role |-> "user", content |-> input]), FALSE)
                            ELSE outputFile
    /\ streamingState' = "created"
    /\ display' = SetOutputContentImmediate(display, "")
    /\ error' = ""
    /\ proc' = [proc EXCEPT !.earlySubmits = @ + 1,
                            !.callsLeft = (logger.currentStatus.state /= "error")]
    /\ UNCHANGED <<completedSeen, streamPos, wellFormed, streamsOpened, clientVars, fetchCall,
                   pending, emitted, cliArgs, turn, appPc, conversationHistory, userMessage,
                   finalOutputContent, finalThinkingContent, appRequestedUrls, usage,
                   toolCallInProgress, reasoningLogged, toolResponseLogged, exitCalled,
                   streamingSaveCounter, outputLogged, thinkingLogged, obsVars, meterVars,
                   issuedNames, writeFailed>>

NextPrompt == Next \/ HandleSubmitDuringTurn

SpecPrompt == Init /\ [][NextPrompt]_vars

\* The App on streams of long output deltas, which reach the threshold of the
\* streaming save
RECURSIVE Repeat(_, _)
Repeat(str, n) == IF n = 0 THEN "" ELSE str \o Repeat(str, n - 1)

DeltaLengths == {40, 60, 100}

LongFrames ==
    { [FrameBase EXCEPT !.type = "response.output_text.delta", !.delta = Repeat("x", n)] :
        n \in DeltaLengths }

StreamLongFrame == \E frame \in LongFrames : StreamFrame(frame)

NextStreaming ==
    \/ ProcessRequest
    \/ StreamOpen
    \/ StreamLongFrame
    \/ StreamCompleted
    \/ StreamEnds
    \/ ProcessEvent
    \/ ProcessRequestFinish

SpecStreaming == Init /\ [][NextStreaming]_vars

\* The App when a turn that has started keeps running. The generators go on
\* whenever they can: a stream that is being read delivers a frame, ends or
\* throws, and a fetch in flight settles
GeneratorStep ==
    \/ StreamOpen
    \/ StreamPlainFrame
    \/ StreamArgumentsDone
    \/ ParseAndAnnounce
    \/ StartFetch
    \/ TurnFetchSettle
    \/ TurnFetchUrlsReturn
    \/ ToolSettled
    \/ StreamCompleted
    \/ StreamEnds
    \/ StreamThrows
    \/ ContinueOpen
    \/ ContinueFrame
    \/ ContinueCompleted
    \/ ContinueEnds
    \/ ContinueThrows
    \/ ContinuationDone

\* processEvent returns: an event that was yielded does not stay unprocessed
\* for ever (weak fairness of ProcessEvent, written with its enabling condition)
EventsProcessed == []<>(appPc # "streaming" \/ pending = NoEvent)

SpecLive == Init /\ [][Next]_vars /\ WF_vars(GeneratorStep) /\ EventsProcessed

\* The App started on a request file. handleInitialRequest, when the file
\* gives no input: readInputFile throws (setError, return) or resolves with
\* the empty string (processRequest is not called)
RequestFiles == {"unreadable", "empty"}

HandleInitialRequestNoInput ==
    /\ cliArgs.request
    /\ turn = 0
    /\ appPc = "idle"
    /\ \E file \in RequestFiles :
          error' = IF file = "unreadable" THEN "Failed to read file" ELSE error
    /\ appPc' = "returned"
    /\ UNCHANGED <<upstreamVars, clientVars, fetchCall, pending, emitted, cliArgs, turn,
                   conversationHistoryState, conversationHistory, userMessage,
                   finalOutputContent, finalThinkingContent, appRequestedUrls, usage,
                   toolCallInProgress, reasoningLogged, toolResponseLogged, streamingState, display,
                   exitCalled, outputFile, streamingSaveCounter, logger, outputLogged,
                   thinkingLogged, obsVars, meterVars, issuedNames, writeFailed, proc>>

NextInitial == Next \/ HandleInitialRequestNoInput

\* the effect that calls handleInitialRequest runs when the App is mounted
InitialRequestHandled == []<>(~cliArgs.request \/ turn > 0 \/ appPc # "idle")

SpecInitial ==
    Init /\ [][NextInitial]_vars /\ WF_vars(GeneratorStep) /\ EventsProcessed
         /\ InitialRequestHandled

\* The App with its debounce timer: the timeout armed by
\* setOutputContentDebounced fires at any moment between two steps
DebounceFires ==
    /\ display.timer.armed
    /\ display' = [display EXCEPT !.shown = display.timer.content, !.timer.armed = FALSE]
    /\ UNCHANGED <<upstreamVars, clientVars, fetchCall, pending, emitted, cliArgs, turn, appPc,
                   conversationHistoryState, conversationHistory, userMessage,
                   finalOutputContent, finalThinkingContent, appRequestedUrls, usage,
                   toolCallInProgress, reasoningLogged, toolResponseLogged, streamingState,
                   error, exitCalled, logger, outputLogged, thinkingLogged, outputFile,
                   streamingSaveCounter, obsVars, meterVars, issuedNames, writeFailed, proc>>

NextDisplay == Next \/ DebounceFires

SpecDisplay == Init /\ [][NextDisplay]_vars

\* processEvent on its own: the generators are seen through their interface,
\* AsyncGenerator<ResponseStreamEvent>, which lets a generator at any depth
\* of the recursion yield any event, a tool_continuation included
FetchedPages == { FetchOne(u, [kind |-> "ok", body |-> "hello", latency |-> 7]) : u \in Urls }

StreamEvents ==
    { [BaseEvent EXCEPT !.type = "output", !.delta = "a"],
      [BaseEvent EXCEPT !.type = "complete"],
      ErrorEvent("Connection error.") }
    \cup { [BaseEvent EXCEPT
              !.type = "tool_continuation", !.toolName = "fetch_urls",
              !.toolResult = page.content,
              !.requestedUrls = <<page.result.url>>,
              !.urlMetrics = <<page.result.metrics>>,
              !.urlFetchResults = <<page.result>>] : page \in FetchedPages }

\* the generator that is being iterated yields
GeneratorYields ==
    /\ appPc = "streaming"
    /\ pending = NoEvent
    /\ depth >= 1
    /\ genPc # "ended"
    /\ inputsLeft > 0
    /\ inputsLeft' = inputsLeft - 1
    /\ \E event \in StreamEvents : Yield(event)
    /\ UNCHANGED <<completedSeen, streamPos, wellFormed, streamsOpened, clientVars, fetchCall,
                   appVars, obsVars, meterVars, issuedNames, writeFailed, proc>>

\* the generator that is being iterated returns: a continuation hands
\* control back to the processEvent call that iterates it, which returns to
\* the loop one level up; the outermost generator ends the loop of
\* processRequest
GeneratorReturns ==
    /\ appPc = "streaming"
    /\ pending = NoEvent
    /\ depth >= 1
    /\ genPc # "ended"
    /\ depth' = IF depth > 1 THEN depth - 1 ELSE depth
    /\ genPc' = IF depth > 1 THEN genPc ELSE "ended"
    /\ UNCHANGED <<upstreamVars, conversation, messages, arguments, args, needsContinuation,
                   toolCallResults, requestedUrls, responseUsage, urlFetches, fetchCalls,
                   fetchCall, pending, emitted, appVars, obsVars, meterVars, issuedNames,
                   writeFailed, proc>>

NextEvents ==
    \/ ProcessRequest
    \/ GeneratorYields
    \/ GeneratorReturns
    \/ ProcessEvent
    \/ ProcessRequestFinish

SpecEvents == Init /\ [][NextEvents]_vars

\* parseArgs alone, on any command line
CommandLines ==
    [model : {Undefined, "o3", "gpt-5-nano", "gpt-4"},
     reasoningEffort : {Undefined, "low"},
     request : {Undefined, "q"},
     requestFile : {Undefined, "f"},
     outputFile : {Undefined, "o"},
     tools : {{}, {"fetch_urls"}}]

CallParseArgs ==
    /\ \E argv \in CommandLines :
          proc' = [proc EXCEPT !.parsed = TRUE, !.argv = argv, !.args = ParseArgs(argv)]
    /\ UNCHANGED <<inputsLeft, logger>>
    /\ OthersUnchanged

NextArgs == CallParseArgs

SpecArgs == Init /\ [][NextArgs]_vars

\* The Tool Executor alone: one fetchUrls call on any URL list
FetchUrlsCall ==
    /\ fetchCall.state = "idle"
    /\ \E urls \in SeqsUpTo(Urls, MaxUrls) : fetchCall' = FetchUrlsStart(urls)
    /\ UNCHANGED <<upstreamVars, clientVars, pending, emitted, appVars, meterVars, issuedNames, writeFailed, proc, obsVars>>

FetchSettleAny ==
    /\ \E i \in fetchCall.pending, outcome \in AllOutcomes : FetchSettle(i, outcome)
    /\ UNCHANGED <<upstreamVars, clientVars, pending, emitted, appVars, meterVars, issuedNames, writeFailed, proc, obsVars>>

FetchUrlsReturns ==
    /\ FetchUrlsReturn
    /\ UNCHANGED <<upstreamVars, clientVars, pending, emitted, appVars, meterVars, issuedNames, writeFailed, proc, obsVars>>

NextFetch == FetchUrlsCall \/ FetchSettleAny \/ FetchUrlsReturns

SpecFetch == Init /\ [][NextFetch]_vars

\* The Session Logger alone: its operations in any order, on any arguments
LoggerModels == {"gpt-5", "gpt-4o"}
LoggerUsages == { CalculateUsage(model, raw) : model \in LoggerModels, raw \in RawUsages }
LoggerMetrics == FetchOne("u1", [kind |-> "ok", body |-> "hello", latency |-> 1]).result.metrics

LoggerCall(after) ==
    /\ inputsLeft > 0
    /\ inputsLeft' = inputsLeft - 1
    /\ logger' = after
    /\ UNCHANGED <<completedSeen, streamPos, wellFormed, streamsOpened, clientVars, fetchCall,
                   pending, emitted, cliArgs, turn, appPc, conversationHistoryState,
                   conversationHistory, userMessage, finalOutputContent, finalThinkingContent,
                   appRequestedUrls, usage, toolCallInProgress, reasoningLogged,
                   toolResponseLogged, streamingState, display, error, exitCalled, outputLogged,
                   thinkingLogged, outputFile, streamingSaveCounter, obsVars, meterVars, writeFailed, proc>>

CallStartInteraction ==
    \E model \in LoggerModels :
        /\ LoggerCall(StartInteraction(logger, model))
        /\ issuedNames' = Append(issuedNames,
                                 FormatFileNumber(logger'.interactionCount) \o "-request.md")

CallLogRequest ==
    LoggerCall(LogRequest(logger, "q")) /\ UNCHANGED issuedNames

CallLogRequestFromUrlFetches ==
    /\ LoggerCall(LogRequestFromUrlFetches(logger, <<[url |-> "u1", content |-> "hello"]>>))
    /\ UNCHANGED issuedNames

CallLogToolCall ==
    LoggerCall(LogToolCall(logger, "fetch_urls", <<"u1">>)) /\ UNCHANGED issuedNames

CallLogResponse ==
    /\ \E append \in BOOLEAN : LoggerCall(LogResponse(logger, "a", append))
    /\ UNCHANGED issuedNames

CallLogReasoning ==
    /\ \E append \in BOOLEAN : LoggerCall(LogReasoning(logger, "t", append))
    /\ UNCHANGED issuedNames

CallLogUrlFetchRequest ==
    LoggerCall(LogUrlFetchRequest(logger, <<"u1">>)) /\ UNCHANGED issuedNames

CallLogUrlFetchResult ==
    /\ LoggerCall(LogUrlFetchResult(logger, 1, "u1", "hello", LoggerMetrics))
    /\ UNCHANGED issuedNames

CallLogCombinedUrlFetch ==
    LoggerCall(LogCombinedUrlFetch(logger, "hello")) /\ UNCHANGED issuedNames

CallLogUrlMetrics ==
    LoggerCall(LogUrlMetrics(logger, <<LoggerMetrics>>)) /\ UNCHANGED issuedNames

CallUpdateMetrics ==
    /\ \E given \in LoggerUsages : LoggerCall(UpdateMetrics(logger, given))
    /\ UNCHANGED issuedNames

CallLogInteractionStats ==
    LoggerCall(LogInteractionStats(logger)) /\ UNCHANGED issuedNames

CallSetCurrentState ==
    LoggerCall(SetCurrentState(logger, "responding", "")) /\ UNCHANGED issuedNames

CallUpdateGlobalStats ==
    LoggerCall(UpdateGlobalStats(logger)) /\ UNCHANGED issuedNames

CallLogError ==
    LoggerCall(LogError(logger, "boom")) /\ UNCHANGED issuedNames

CallCreateSessionLog ==
    LoggerCall(CreateSessionLog(logger)) /\ UNCHANGED issuedNames

NextLogger ==
    \/ CallStartInteraction
    \/ CallLogRequest
    \/ CallLogRequestFromUrlFetches
    \/ CallLogToolCall
    \/ CallLogResponse
    \/ CallLogReasoning
    \/ CallLogUrlFetchRequest
    \/ CallLogUrlFetchResult
    \/ CallLogCombinedUrlFetch
    \/ CallLogUrlMetrics
    \/ CallUpdateMetrics
    \/ CallLogInteractionStats
    \/ CallSetCurrentState
    \/ CallUpdateGlobalStats
    \/ CallLogError
    \/ CallCreateSessionLog

SpecLogger == Init /\ [][NextLogger]_vars

(* -------------------------------- claims ------------------------------- *)
EventsOfType(t) == {i \in 1..Len(emitted) : emitted[i].type = t}
Completes == EventsOfType("complete")
Errors == EventsOfType("error")
Terminals == Completes \cup Errors
Continuations == EventsOfType("tool_continuation")
ToolErrors == {i \in EventsOfType("tool_use") : emitted[i].toolStatus = "error"}

\* processRequest has returned
TurnOver == turn > 0 /\ appPc = "idle"

FailedResult(r) == r.metrics.sizeBytes = 0 /\ StartsWith(r.content, "Error fetching")

Contains(str, part) ==
    \E i \in 1..(Len(str) - Len(part) + 1) : SubSeq(str, i, i + Len(part) - 1) = part

\* payloads on which JSON.parse, `args.urls` or `urls.join` throws
Unparseable(text) == text \in {"null", "{\"urls\":[", "{\"urls\":\"u1\"}"}

\* arguments payloads delivered in sub-turn d
SeenIn(d) == SelectSeq(argumentsSeen, LAMBDA a : a.sub = d)

\* C1: while every stream of the turn has ended with response.completed or
\* thrown, a turn yields at most one terminal event (complete or error),
\* nothing after it, and exactly one by the time processRequest returns; once
\* the first stream has delivered response.completed, the first sub-turn has
\* yielded complete exactly when no tool call was executed in it.
C1_OneTerminalEvent ==
    wellFormed =>
      /\ Cardinality(Terminals) <= 1
      /\ \A i \in Terminals : i = Len(emitted)
      /\ TurnOver => Cardinality(Terminals) = 1
      /\ (depth = 1 /\ streamsOpened = 1 /\ completedSeen /\ genPc \in {"stream", "ended"}) =>
            ((\E i \in Completes : emitted[i].sub = 1) <=> toolCallResults = <<>>)

\* a finished turn with one executed tool call and a continuation that completed
C1_Witness ==
    /\ TurnOver
    /\ wellFormed
    /\ Continuations # {}
    /\ Len(toolCallResults) = 1
    /\ Cardinality(Terminals) = 1
    /\ emitted[Len(emitted)].type = "complete"
    /\ emitted[Len(emitted)].sub = 2

\* C2: tool_continuation is yielded at most once, never more often than
\* fetchUrls was called; when it is yielded the stream is consumed and every
\* fetchUrls call of the sub-turn has resolved and been recorded; a sub-turn
\* that called fetchUrls and ended without a transport failure has yielded it,
\* and when every fetch of the batch failed its toolResult is the joined
\* error strings.
C2_ToolContinuation ==
    /\ Cardinality(Continuations) <= 1
    /\ Cardinality(Continuations) <= Len(fetchCalls)
    /\ pending.type = "tool_continuation" =>
          /\ depth = 1
          /\ genPc = "ended"
          /\ fetchCall.state = "idle"
          /\ Len(toolCallResults) = Len(fetchCalls)
          /\ Len(pending.urlFetchResults) = Len(fetchCalls[1])
          /\ (\A k \in 1..Len(pending.urlFetchResults) : FailedResult(pending.urlFetchResults[k]))
                => pending.toolResult =
                      Join([k \in 1..Len(fetchCalls[1]) |->
                               "Error fetching " \o fetchCalls[1][k] \o ": " \o RejectMessage],
                           "\n\n---\n\n")
    /\ (turn > 0 /\ depth <= 1 /\ genPc = "ended" /\ fetchCalls # <<>>
          /\ ~\E i \in Errors : emitted[i].sub = 1)
          => Continuations # {}

\* the continuation event of a batch whose only fetch failed
C2_Witness ==
    /\ pending.type = "tool_continuation"
    /\ Len(pending.urlFetchResults) = 1
    /\ FailedResult(pending.urlFetchResults[1])
    /\ StartsWith(pending.toolResult, "Error fetching u1")

\* C3: every transport failure yields one error event and nothing else does;
\* a turn has at most one, it is the last event of the turn (no
\* tool_continuation and no complete follow it), and no stream is opened
\* after it, also when a tool call was executed in the failing sub-turn.
C3_TransportFailure ==
    /\ Cardinality(Errors) = failures
    /\ failures <= 1
    /\ \A i \in Errors :
          /\ i = Len(emitted)
          /\ streamsOpened = emitted[i].sub
          /\ depth <= emitted[i].sub
          /\ emitted[i].sub = 1 => Continuations = {}

\* a finished turn whose first stream threw after a tool call was executed
C3_Witness ==
    /\ TurnOver
    /\ Errors # {}
    /\ emitted[Len(emitted)].sub = 1
    /\ toolCallResults # <<>>
    /\ needsContinuation
    /\ streamsOpened = 1

C5_OnlyFirstExecuted ==
    Len(fetchCalls) <= 1

\* C6: while the continuation runs, its message list is the conversation the
\* turn started from, the turn's user message, one synthetic assistant message
\* and one synthetic user message carrying the combined fetch text of the
\* executed call; that list is the input of the continuation stream, and no
\* event of the second sub-turn exists before tool_continuation was handled.
C6_ContinuationMessages ==
    /\ depth = 2 =>
          /\ conversation =
                conversationHistory \o
                << [role |-> "user", content |-> InputOf(turn)],
                   [role |-> "assistant", content |-> "I will fetch the content of the URLs."],
                   [role |-> "user", content |-> toolCallResults[1].result] >>
          /\ streamsOpened = 2 => messages = conversation
    /\ \A i \in 1..Len(emitted) :
          emitted[i].sub = 2 => \E j \in Continuations : j < i
    /\ pending.type = "tool_continuation" => \A i \in 1..Len(emitted) : emitted[i].sub = 1

\* second turn of a session: the fetch succeeded and the continuation stream,
\* opened with the message list, has yielded an event
C6_Witness ==
    /\ depth = 2
    /\ conversationHistory # <<>>
    /\ streamsOpened = 2
    /\ messages = conversation
    /\ Len(toolCallResults[1].results) = 1
    /\ toolCallResults[1].results[1].content = "hello"
    /\ \E i \in 1..Len(emitted) : emitted[i].sub = 2

\* C7 (as stated): a function_call_arguments.done frame of the continuation
\* sub-turn is handled like one of the first sub-turn: the tool is executed,
\* which begins with a tool_use event of that sub-turn.
C7_ContinuationExecutesTool ==
    (pending = NoEvent /\ SeenIn(2) # <<>>)
      => \E i \in EventsOfType("tool_use") : emitted[i].sub = 2

\* C8: fetchUrls never rejects; it makes one attempt per list position; when
\* it has resolved, results holds one entry per position of the input list
\* (duplicates included), the entry of a failed fetch has sizeBytes 0 and a
\* content starting with "Error fetching", the entry of a successful fetch
\* holds its body, and for the empty list the combined text is empty and
\* there are no results.
C8_FetchUrlsTotal ==
    LET n == Len(fetchCall.urls)
    IN  /\ fetchCall.state # "rejected"
        /\ \A i \in 1..n : fetchCall.attempts[i] = 1
        /\ fetchCall.state = "resolved" =>
              /\ Len(fetchCall.results) = n
              /\ \A i \in 1..n : fetchCall.slot[i] \in 1..n
              /\ \A i, j \in 1..n : i # j => fetchCall.slot[i] # fetchCall.slot[j]
              /\ \A i \in 1..n :
                    LET r == fetchCall.results[fetchCall.slot[i]]
                        o == fetchCall.outcomes[i]
                    IN  /\ r.url = fetchCall.urls[i]
                        /\ o.kind # "ok" =>
                              /\ r.metrics.sizeBytes = 0
                              /\ StartsWith(r.content, "Error fetching")
                        /\ o.kind = "ok" =>
                              /\ r.content = o.body
                              /\ r.metrics.sizeBytes = Len(o.body)
              /\ n = 0 => fetchCall.combinedContent = "" /\ fetchCall.results = <<>>

\* a resolved call on a list naming the same URL twice, one fetch failed
C8_Witness ==
    /\ fetchCall.state = "resolved"
    /\ Len(fetchCall.urls) = 2
    /\ fetchCall.urls[1] = fetchCall.urls[2]
    /\ fetchCall.outcomes[1].kind = "reject"
    /\ fetchCall.outcomes[2].kind = "ok"
    /\ fetchCall.outcomes[2].body = "hello"

\* C9 (as stated): when a turn ended in an error event, the logger has
\* recorded its interaction as failed and not as complete.
C9_ErrorLoggedFailed ==
    (TurnOver /\ Errors # {}) =>
       LET number == FormatFileNumber(logger.interactionCount)
           rows == logger.cumulativeMetrics.interactions
       IN  /\ \E k \in 1..Len(rows) : rows[k].number = number /\ rows[k].status = "Failed"
           /\ ~\E k \in 1..Len(rows) : rows[k].number = number /\ rows[k].status = "Complete"

\* C10 (as stated): the output and reasoning deltas processed in an
\* interaction stay in that interaction's response and reasoning files.
C10_AppendedTextKept ==
    \A n \in 1..Len(outputLogged) :
       LET response == FormatFileNumber(n) \o "-response.md"
           reasoning == FormatFileNumber(n) \o "-response-reasoning.md"
       IN  /\ outputLogged[n] # "" =>
                /\ response \in DOMAIN logger.files
                /\ Contains(logger.files[response], outputLogged[n])
           /\ thinkingLogged[n] # "" =>
                /\ reasoning \in DOMAIN logger.files
                /\ Contains(logger.files[reasoning], thinkingLogged[n])


\* the in-order concatenation of the upstream deltas of one kind in sub-turn d
TextSeen(kind, d) ==
    LET sel == SelectSeq(deltasSeen, LAMBDA x : x.kind = kind /\ x.sub = d)
    IN  Join([k \in 1..Len(sel) |-> sel[k].delta], "")

\* content of a file of the session directory, "" when it does not exist
FileContent(name) == IF name \in DOMAIN logger.files THEN logger.files[name] ELSE ""

\* what a finished turn without tool call handed on: the assistant message
\* added to the history, the output file and the response log file all hold
\* the concatenated output deltas
HandedOn(text) ==
    /\ conversationHistoryState =
          conversationHistory \o <<userMessage, [role |-> "assistant", content |-> text]>>
    /\ FileContent(FormatFileNumber(logger.interactionCount) \o "-response.md") = text
    /\ cliArgs.request => outputFile = text
    /\ ~cliArgs.request => outputFile = ConversationFile(conversationHistoryState, FALSE)

\* C11 (as stated): every finished turn without a tool call has yielded
\* exactly one complete event and handed on the concatenated output deltas.
C11_Original ==
    (TurnOver /\ argumentsSeen = <<>>) =>
       /\ Cardinality(Completes) = 1
       /\ HandedOn(TextSeen("output", 1))

\* C11 (amended): every finished turn without a tool call whose stream ended
\* with response.completed and did not fail has yielded exactly one complete
\* event, and the assistant message added to the history, the output file
\* and the response log file of the interaction hold the in-order
\* concatenation of the output deltas of the turn.
C11_Amended ==
    (TurnOver /\ argumentsSeen = <<>> /\ wellFormed /\ failures = 0) =>
       /\ Cardinality(Completes) = 1
       /\ HandedOn(TextSeen("output", 1))

\* a finished turn of two output deltas and a completed frame
C11_Witness ==
    /\ TurnOver
    /\ argumentsSeen = <<>>
    /\ wellFormed
    /\ failures = 0
    /\ Completes # {}
    /\ TextSeen("output", 1) = "aa"


RECURSIVE Sum(_)
Sum(numbers) == IF Len(numbers) = 0 THEN 0 ELSE numbers[1] + Sum(Tail(numbers))

\* per response.completed frame of the turn, what it reported
InputsSeen == [k \in 1..Len(usagesSeen) |-> usagesSeen[k].usage.input_tokens]
OutputsSeen == [k \in 1..Len(usagesSeen) |-> usagesSeen[k].usage.output_tokens]
CachedSeen == [k \in 1..Len(usagesSeen) |-> usagesSeen[k].usage.cached_tokens]
ThinkingSeen == [k \in 1..Len(usagesSeen) |-> usagesSeen[k].usage.reasoning_tokens]
\* gpt-5: 1.25 USD and 10 USD per million tokens, in units of 1e-8 USD
CostsSeen ==
    [k \in 1..Len(usagesSeen) |->
        usagesSeen[k].usage.input_tokens * 125 + usagesSeen[k].usage.output_tokens * 1000]

\* C12: when a turn of a first sub-turn and one continuation, both ended by
\* their response.completed frame, is over, each cumulative token counter
\* of the logger and the cumulative cost exceed their value at the start of
\* the turn by the sum over the two completed frames of the usage reported.
C12_UsageAdditive ==
    (TurnOver /\ wellFormed /\ failures = 0 /\ streamsOpened = 2) =>
       LET now == logger.cumulativeMetrics
           was == metricsAtStart
       IN  /\ Len(usagesSeen) = 2
           /\ now.totalInputTokens = was.totalInputTokens + Sum(InputsSeen)
           /\ now.totalOutputTokens = was.totalOutputTokens + Sum(OutputsSeen)
           /\ now.totalCachedTokens = was.totalCachedTokens + Sum(CachedSeen)
           /\ now.totalThinkingTokens =
                 was.totalThinkingTokens + Sum(ThinkingSeen)
           /\ now.totalCost = was.totalCost + Sum(CostsSeen)

\* a finished turn whose two sub-turns both reported usage
C12_Witness ==
    /\ TurnOver
    /\ wellFormed
    /\ failures = 0
    /\ streamsOpened = 2
    /\ Len(usagesSeen) = 2
    /\ usagesSeen[1].usage.some
    /\ usagesSeen[2].usage.some
    /\ logger.cumulativeMetrics.totalInputTokens = 6
    /\ logger.cumulativeMetrics.totalCost = 4750


\* The cumulative counters of a logger, in a fixed order
CountersOf(L) ==
    << L.cumulativeMetrics.totalInputTokens, L.cumulativeMetrics.totalOutputTokens,
       L.cumulativeMetrics.totalCachedTokens, L.cumulativeMetrics.totalThinkingTokens,
       L.cumulativeMetrics.totalCost, L.cumulativeMetrics.totalUrlFetches,
       L.cumulativeMetrics.totalInteractions, L.cumulativeMetrics.completedInteractions >>

\* C13: whatever Session Logger operation is called next, on usage whose
\* counts are not negative, none of the cumulative counters (input, output,
\* cached and thinking tokens, cost, URL fetches, total and completed
\* interactions) is smaller after the call than before it.
C13_CountersMonotonic ==
    [][\A k \in 1..Len(CountersOf(logger)) : CountersOf(logger')[k] >= CountersOf(logger)[k]]_vars

\* every counter has grown
C13_Witness ==
    /\ issuedNames # <<>>
    /\ \A k \in 1..Len(CountersOf(logger)) : CountersOf(logger)[k] > 0

\* C14: the interaction number is the number of startInteraction calls made
\* so far (each call adds exactly 1 and no other operation changes it), and
\* the request file names of two different calls are different.
C14_InteractionNumber ==
    /\ logger.interactionCount = Len(issuedNames)
    /\ \A i, j \in 1..Len(issuedNames) : i # j => issuedNames[i] # issuedNames[j]

\* two interactions were started and each has its own request file
C14_Witness ==
    /\ Len(issuedNames) = 2
    /\ issuedNames[1] \in DOMAIN logger.files
    /\ issuedNames[2] \in DOMAIN logger.files


\* C15: a rejected file write of the logger does not end the turn early: when
\* processRequest has returned from a turn in which a write was rejected, the
\* stream was still processed to its terminal event, and if that event was
\* complete on a turn without tool call, the assistant message added to the
\* history holds the full output text.
C15_WriteFailureTolerated ==
    (TurnOver /\ writeFailed) =>
       /\ Terminals # {}
       /\ (Completes # {} /\ argumentsSeen = <<>>) =>
             conversationHistoryState =
                conversationHistory \o
                <<userMessage, [role |-> "assistant", content |-> TextSeen("output", 1)]>>


\* the part of the session report about interaction n has the section
\* `title` holding exactly `text`, or `text` followed by the tool call note
SectionHolds(n, title, text) ==
    LET part == GetInteractionLog(logger, n)
        head == "### " \o title \o "\n\n" \o text
    IN  /\ Contains(FileContent("session.md"), part)
        /\ \/ Contains(part, head \o "\n\n")
           \/ title = "Response" /\ Contains(part, head \o "Tool Call: Fetch URLs\n\n")

\* C16: once createSessionLog has written the session report of a finished
\* request, the report holds, for every interaction, the request text, the
\* concatenated reasoning deltas and the concatenated output deltas that were
\* written to the logger for that interaction, under their section headers.
C16_RoundTrip ==
    (TurnOver /\ "session.md" \in DOMAIN logger.files) =>
       /\ SectionHolds(1, "Request", userMessage.content)
       /\ \A n \in 1..logger.interactionCount :
             /\ thinkingLogged[n] # "" => SectionHolds(n, "Reasoning", thinkingLogged[n])
             /\ outputLogged[n] # "" => SectionHolds(n, "Response", outputLogged[n])


\* the caller's tool set contains the tool or the wildcard
Requested(t) == t \in cliArgs.tools \/ "all" \in cliArgs.tools

\* C17: every tool declared in a responses.create call is in the caller's
\* requested tool set (by name or by 'all'), and fetchUrls is executed only
\* when fetch_urls was requested.
C17_ToolsGated ==
    /\ streamsOpened > 0 =>
          \A t \in DeclaredTools(cliArgs.model, "medium", cliArgs.tools) : Requested(t)
    /\ fetchCalls # <<>> => Requested("fetch_urls")


\* kind and text of the delta events yielded in sub-turn d, in order
EmittedDeltas(d) ==
    LET sel == SelectSeq(emitted, LAMBDA e : /\ e.type \in {"thinking", "output"}
                                             /\ e.delta # ""
                                             /\ e.sub = d)
    IN  [k \in 1..Len(sel) |-> <<sel[k].type, sel[k].delta>>]

\* kind and text of the delta frames the endpoint sent in sub-turn d, in order
UpstreamDeltas(d) ==
    LET sel == SelectSeq(deltasSeen, LAMBDA x : x.sub = d)
    IN  [k \in 1..Len(sel) |-> <<sel[k].kind, sel[k].delta>>]

\* C18: in each sub-turn, the thinking and output delta events yielded so far
\* are the reasoning-summary and output-text delta frames received so far, in
\* the same order, each once.
C18_OrderPreserved ==
    \A d \in {1, 2} : EmittedDeltas(d) = UpstreamDeltas(d)

\* a sub-turn in which an output delta came before a thinking delta
C18_Witness ==
    \E d \in {1, 2} :
       /\ Len(UpstreamDeltas(d)) >= 2
       /\ UpstreamDeltas(d)[1][1] = "output"
       /\ UpstreamDeltas(d)[2][1] = "thinking"
       /\ Len(EmittedDeltas(d)) >= 2


\* frames of a kind the switch of the generator has no case for
UnhandledFrames == {frame \in PlainFrames : frame.type \notin HandledKinds}
ContinueUnhandledFrames ==
    {frame \in PlainFrames \cup ArgumentsDoneFrames : frame.type \notin ContinueHandledKinds}

\* the generator's per-turn variables and what it has yielded
TurnState ==
    <<pending, emitted, needsContinuation, toolCallResults, requestedUrls, responseUsage,
      genPc, failures>>

\* C19: a step in which a generator receives a frame of a kind it has no case
\* for yields no event, raises no error (the generator goes on reading) and
\* leaves needsContinuation, toolCallResults, requestedUrls and responseUsage
\* as they were.
C19_UnhandledIgnored ==
    [][/\ \A frame \in UnhandledFrames : StreamFrame(frame) => UNCHANGED TurnState
       /\ \A frame \in ContinueUnhandledFrames :
             ContinueStreamFrame(frame) => UNCHANGED TurnState]_vars

\* streamResponse has read a frame past the start of the stream that was
\* neither a function call nor response.completed, has yielded nothing for
\* it, and goes on reading
C19_Witness ==
    /\ Running(1, "stream")
    /\ streamPos = "body"
    /\ emitted = <<>>
    /\ argumentsSeen = <<>>
    /\ ~completedSeen
    /\ failures = 0


\* C20: calculateUsage gives nothing for a missing usage object; for a model
\* without prices it gives the prompt, completion and total token counts of
\* the usage object, the cached and thinking counts with 0 for a missing
\* detail count, and no cost.
C20_CalculateUsage ==
    /\ ~responseUsage.some => ~usage.some
    /\ (responseUsage.some /\ cliArgs.model \notin DOMAIN ModelPricing) =>
          /\ usage.some
          /\ usage.prompt_tokens = responseUsage.input_tokens
          /\ usage.completion_tokens = responseUsage.output_tokens
          /\ usage.total_tokens = responseUsage.total_tokens
          /\ usage.cached_tokens =
                (IF responseUsage.cached_tokens = NoCount THEN 0 ELSE responseUsage.cached_tokens)
          /\ usage.thinking_tokens =
                (IF responseUsage.reasoning_tokens = NoCount THEN 0
                 ELSE responseUsage.reasoning_tokens)
          /\ ~usage.hasCost

\* a usage object without input details, for a model without prices
C20_Witness ==
    /\ cliArgs.model = "gpt-5-nano"
    /\ responseUsage.some
    /\ responseUsage.input_tokens = 3
    /\ responseUsage.cached_tokens = NoCount
    /\ responseUsage.reasoning_tokens = 1
    /\ usage.some
    /\ usage.thinking_tokens = 1


\* the cost of the uncached input and of the output, at the prices of the table
PlainCost(model, given) ==
    given.input_tokens * ModelPricing[model].input
    + given.output_tokens * ModelPricing[model].output

\* C21: for a model with prices, the cost is the input and output terms plus
\* a term of its own for the cached tokens (cachedTokens * priceIn * factor,
\* factor > 0): it exceeds the two plain terms whenever cached tokens were
\* reported, and equals them when none were.
C21_CachedTermCounted ==
    (responseUsage.some /\ cliArgs.model \in DOMAIN ModelPricing) =>
       /\ usage.hasCost
       /\ usage.cached_tokens > 0 => usage.cost > PlainCost(cliArgs.model, responseUsage)
       /\ usage.cached_tokens = 0 => usage.cost = PlainCost(cliArgs.model, responseUsage)


\* C22: exit() has been called only in a non-interactive session, and then
\* only after processRequest wrote the final statistics of the interaction
\* and the session report; in an interactive session no event calls it.
C22_FlushBeforeExit ==
    exitCalled =>
       /\ cliArgs.request
       /\ "session.md" \in DOMAIN logger.files
       /\ (FormatFileNumber(logger.interactionCount) \o "-stats.md") \in DOMAIN logger.files


\* C23: when the process has ended after an interrupt (and not through the
\* catch of main), a handleExit call had settled before: createSessionLog
\* was attempted and had written session.md or failed with the failure caught.
C23_FlushBeforeInterruptExit ==
    (proc.state = "exited" /\ proc.interrupts > 0 /\ proc.cause # "fatal") =>
       proc.flushes > 0

\* C24: session.md is never written more than once in a run, and a run
\* ended by the catch of main has written it.
C24_SessionLogOnce ==
    /\ proc.sessionWrites <= 1
    /\ (proc.state = "exited" /\ proc.cause = "fatal") =>
          /\ proc.sessionWrites = 1
          /\ \/ "session.md" \in DOMAIN logger.files
             \/ "session.md" \in DOMAIN proc.mainLogger.files

C27_SubTurnsSerialized ==
    [][ /\ (depth' = 2 /\ depth = 1) =>
              /\ genPc = "ended"
              /\ pending.type = "tool_continuation"
              /\ fetchCall.state = "idle"
              /\ fetchCall.pending = {}
              /\ Len(toolCallResults) > 0
        /\ (depth = 2 /\ streamsOpened' = streamsOpened + 1) =>
              /\ fetchCall'.state = "idle"
              /\ emitted[Len(emitted)].type = "tool_continuation"
              /\ \A i \in 1..Len(emitted) : emitted[i].sub = 1
        /\ \A i, j \in 1..Len(emitted') :
              (i < j /\ emitted'[i].sub = 2) => emitted'[j].sub = 2 ]_vars

\* a continuation has yielded events after a tool call of the first stream
\* that fetched a URL
C27_Witness ==
    /\ depth = 2
    /\ streamsOpened = 2
    /\ Len(fetchCalls) > 0
    /\ Len(fetchCalls[1]) > 0
    /\ \E i \in 1..Len(emitted) : emitted[i].sub = 2
    /\ \E i \in 1..Len(emitted) : emitted[i].sub = 1 /\ emitted[i].toolStatus = "completed"


\* C28: the fetches of one fetchUrls call share no mutable state: each one
\* writes its own slot, so whatever the order in which they settle the k-th
\* entry of the returned results belongs to the k-th input URL, the order of
\* the combined text.
C28_ResultsInInputOrder ==
    fetchCall.state = "resolved" =>
       /\ Len(fetchCall.results) = Len(fetchCall.urls)
       /\ \A k \in 1..Len(fetchCall.urls) :
             /\ fetchCall.slot[k] = k
             /\ fetchCall.results[k].url = fetchCall.urls[k]


\* C29: no two turns run against the SessionLogger at once: a turn is
\* submitted only when the processRequest call before it has made all its
\* logger calls, updateMetrics and logInteractionStats after the complete
\* event included.
C29_TurnsSerialized ==
    proc.earlySubmits > 0 => ~proc.callsLeft


\* the frames that announce a new output item
ItemAddedFrames == {frame \in PlainFrames : frame.type = "response.output_item.added"}

\* what the claim expects a generator to yield for such a frame
Announced(frame, event) ==
    IF frame.itemType = "reasoning"
    THEN event.type = "thinking" /\ event.delta = "" /\ event.content = ""
    ELSE event.type = "tool_use" /\ event.toolStatus = "processing"

\* C30: for every frame announcing a new output item the generator yields, in
\* the step that reads it and so before any delta of the item, a thinking
\* event with empty text when the item is a reasoning item and a tool_use
\* event with status processing when it is a function call.
C30_ItemAddedAnnounced ==
    [][\A frame \in ItemAddedFrames :
          (StreamFrame(frame) \/ ContinueStreamFrame(frame)) => Announced(frame, pending')]_vars


\* C31: stats.md is rewritten after every state change: a logger operation
\* that changes the current status or a cumulative counter leaves stats.md
\* with the content generated from the values it left.
C31_StatsRewritten ==
    [][(\/ logger'.currentStatus # logger.currentStatus
        \/ logger'.cumulativeMetrics # logger.cumulativeMetrics)
       => logger'.stats = StatsContent(logger')]_vars


\* the conversation file of a streaming save made when the output was text
SavedWith(history, message, text) ==
    ConversationFile(history \o <<message, [role |-> "assistant", content |-> text]>>, TRUE)

\* an output event of the running turn has been handled
OutputHandled == appPc = "streaming" /\ pending = NoEvent /\ streamingState = "responding"

\* C32: in interactive mode with an output file, after each handled output
\* event fewer than 100 characters of output have arrived since the last
\* streaming save (the file holds a save of all the output but a tail shorter
\* than 100, or the file of the start of the turn while the output is shorter
\* than 100; after a complete event the file written on completion counts as
\* a save); a streaming save writes all the output accumulated so far,
\* marked as still streaming; in non-interactive mode the output file is not
\* written before completion.
C32_StreamingSaves ==
    [][/\ (~cliArgs.request /\ cliArgs.outputFile /\ OutputHandled') =>
             \E k \in 0..Len(finalOutputContent') :
                /\ Len(finalOutputContent') - k < 100
                /\ \/ k = 0 /\ outputFile' =
                         ConversationFile(conversationHistory' \o <<userMessage'>>, FALSE)
                   \/ k > 0 /\ outputFile' =
                         SavedWith(conversationHistory', userMessage',
                                   SubSeq(finalOutputContent', 1, k))
                   \/ Completes' # {} /\ outputFile' =
                         ConversationFile(
                            conversationHistory' \o
                            <<userMessage', [role |-> "assistant",
                                             content |-> SubSeq(finalOutputContent', 1, k)]>>,
                            FALSE)
       /\ (~cliArgs.request /\ pending.type = "output" /\ outputFile' # outputFile) =>
             /\ outputFile' = SavedWith(conversationHistory', userMessage', finalOutputContent')
             /\ Contains(outputFile', "[Response still streaming...]")
       /\ (cliArgs.request /\ Completes' = {}) => outputFile' = ""]_vars

\* a streaming save was made in the middle of a turn and output has arrived since
C32_Witness ==
    /\ ~cliArgs.request
    /\ OutputHandled
    /\ streamingSaveCounter > 0
    /\ Len(finalOutputContent) > 100
    /\ \E k \in 1..Len(finalOutputContent) - 1 :
          outputFile = SavedWith(conversationHistory, userMessage,
                                 SubSeq(finalOutputContent, 1, k))


\* C33: a turn opens at most two upstream streams, and, as long as every
\* stream of the turn ends with response.completed or throws, a turn that is
\* running comes to yield its terminal event (complete or error).
C33_TurnTerminates ==
    /\ [](streamsOpened <= 2)
    /\ (appPc = "streaming" /\ wellFormed) ~> (Terminals # {} \/ ~wellFormed)

\* a turn whose first stream completed after a tool call and whose
\* continuation failed has ended with the error event of the continuation
C33_Witness ==
    /\ TurnOver
    /\ wellFormed
    /\ streamsOpened = 2
    /\ Len(toolCallResults) > 0
    /\ Errors = {Len(emitted)}
    /\ emitted[Len(emitted)].sub = 2


\* C34: a non-interactive invocation comes to call exit on every path from
\* start-up (as long as every stream ends with response.completed or throws):
\* after a complete event, after an error event, and when the request file
\* cannot be read or gives empty input.
C34_ExitCalled ==
    cliArgs.request ~> (exitCalled \/ ~wellFormed)


\* user and assistant messages in turn, every user message answered
Alternates(history) ==
    /\ Len(history) % 2 = 0
    /\ \A i \in 1..Len(history) :
          history[i].role = IF i % 2 = 1 THEN "user" ELSE "assistant"

\* C35: in an interactive session the history given to a turn as prior
\* conversation alternates strictly between user and assistant, every earlier
\* user message being followed by the answer of its turn, whether that turn
\* ended in complete or in error; a running turn leaves the earlier messages
\* as they were.
C35_HistoryAlternates ==
    (~cliArgs.request /\ appPc = "streaming") =>
       /\ Alternates(conversationHistory)
       /\ Len(conversationHistory) = 2 * (turn - 1)
       /\ Len(conversationHistoryState) >= Len(conversationHistory)
       /\ SubSeq(conversationHistoryState, 1, Len(conversationHistory)) = conversationHistory


\* C36: the interactions summary of the logger holds at most one entry for
\* an interaction number and its k-th entry carries the number k, so that
\* getInteractionLog(k), which reads the entry at position k - 1, reports the
\* interaction k; once a turn is over every interaction has its entry.
C36_SummaryByNumber ==
    LET interactions == logger.cumulativeMetrics.interactions
    IN  /\ \A k \in 1..Len(interactions) : interactions[k].number = FormatFileNumber(k)
        /\ Len(interactions) <= logger.interactionCount
        /\ TurnOver => Len(interactions) = logger.interactionCount


\* C37: in every state of the logger completedInteractions does not exceed
\* totalInteractions and the two differ by 0 or 1, so that the '1 in
\* progress' of stats.md is accurate whenever they differ.
C37_OneInProgress ==
    LET total == logger.cumulativeMetrics.totalInteractions
        completed == logger.cumulativeMetrics.completedInteractions
    IN  /\ completed <= total
        /\ total - completed \in {0, 1}


\* the complete event of the running turn has been handled
CompleteHandled ==
    /\ appPc = "streaming"
    /\ pending = NoEvent
    /\ Completes # {}
    /\ wellFormed

\* C38: once the complete event of a turn has been handled the output shown
\* is the full output of the turn and no debounced update is pending that
\* could replace it; once a new turn has started the display is cleared, and
\* a debounced update that fires was armed in the running turn and sets a
\* text of that turn.
C38_DisplaySettled ==
    [][/\ CompleteHandled' =>
             /\ display'.shown = finalOutputContent'
             /\ ~display'.timer.armed
       /\ turn' # turn => (display'.shown = "" /\ ~display'.timer.armed)
       /\ DebounceFires =>
             /\ display.timer.turn = turn
             /\ \E k \in 1..Len(finalOutputContent) :
                   display'.shown = SubSeq(finalOutputContent, 1, k)]_vars

\* a debounced update armed in the second turn of a session has fired and
\* shows the output received so far
C38_Witness ==
    /\ turn = 2
    /\ appPc = "streaming"
    /\ streamingState = "responding"
    /\ display.shown = finalOutputContent
    /\ display.shown # ""
    /\ ~display.timer.armed
    /\ display.timer.turn = 2


\* tool results of a continuation conversation: the contents of the user
\* messages that follow the turn's own user message
ToolResultsOf(messageList) ==
    LET first == Len(conversationHistory) + 2
        tail == IF Len(messageList) < first THEN <<>>
                ELSE SubSeq(messageList, first, Len(messageList))
        fromUser == SelectSeq(tail, LAMBDA message : message.role = "user")
    IN  [k \in 1..Len(fromUser) |-> fromUser[k].content]

====
